---- MODULE Spec2Model ----
(***************************************************************************)
(* A model of the device command/session layer of adb-file-explorer        *)
(* (handler.py: ADBHandler) and of the parts of the main window (main.py:  *)
(* ADBFileExplorer) that construct, replace and poll the session.          *)
(*                                                                         *)
(* Text is modelled at the level of characters: a Python str is a sequence *)
(* of one-character strings, so that splitting, stripping, the listing     *)
(* pattern and the substring tests of device discovery are computed the    *)
(* way the code computes them.                                             *)
(***************************************************************************)
EXTENDS Integers, Sequences, FiniteSets, TLC

VARIABLES
    pc,        \* position of the main window: "start", "setup_ui", "select_device",
               \*   "init_refresh", "running", "crashed"; of a caller of the
               \*   Facade: "call", "returned"
    session,   \* self.adb_handler: the ADBHandler the window currently holds
    nsessions, \* how many ADBHandler objects have been constructed so far
    all_files, \* self.all_files: the last listing the window fetched
    status,    \* the text of self.status_label
    connection_label, \* the text of self.connection_label
    title,     \* the window title
    last,      \* the last handler that ran: what it was called with, what the
               \*   process boundary answered, what it returned, spawned and logged
    stack,     \* the handlers running on the GUI thread, the innermost last:
               \*   a handler that runs an event loop has others nested in it
    inflight,  \* the adb subprocesses that have been started and not yet reaped
    current_path, \* self.current_path: the directory the window shows
    path_history, \* self.path_history
    back_btn,     \* whether self.back_btn is enabled
    tree_model,   \* the rows of self.tree_model: name and type
    selection,    \* the selected rows of self.tree_view, by their position
    clipboard     \* self.clipboard

\* the window's browsing state
browse == <<current_path, path_history, back_btn, tree_model, selection, clipboard>>

vars == <<pc, session, nsessions, all_files, status, connection_label, title, last,
          stack, inflight, browse>>

(***************************************************************************)
(* Bounds of the model.                                                    *)
(***************************************************************************)
\* lines in a listing text drawn from the small line set
MaxLines == 2
\* lines after the header in a device enumeration text
MaxDevLines == 2

\* the rows of a selection, the files of a drop, handed to a batch operation
MaxItems == 1

\* the handlers nested in one another on the GUI thread
MaxDepth == 2

\* F of the value of v, v being evaluated once
With(v, F(_)) == CHOOSE r \in {F(x) : x \in {v}} : TRUE

(***************************************************************************)
(* Python str operations, on sequences of characters.                      *)
(***************************************************************************)
\* str.isspace() / the regex class \s, restricted to the characters used here
WhiteSpace == {" ", "\t", "\n", "\r", "\f"}

\* the regex class \d
Digit == {"0", "1", "2", "3", "4", "5", "6", "7", "8", "9"}

\* the regex class [\-dlcbpsrwxStT]
PermChar == {"-", "d", "l", "c", "b", "p", "s", "r", "w", "x", "S", "t", "T"}

\* the first index >= i of s whose character is not in C (Len(s)+1 if none):
\* the end of a greedy run C* started at i
RECURSIVE RunIn(_, _, _)
RunIn(s, i, C) ==
    IF i > Len(s) \/ s[i] \notin C THEN i ELSE RunIn(s, i + 1, C)

\* the same for the complement class (\S is "not in WhiteSpace")
RECURSIVE RunNotIn(_, _, _)
RunNotIn(s, i, C) ==
    IF i > Len(s) \/ s[i] \in C THEN i ELSE RunNotIn(s, i + 1, C)

\* the last index <= i of s whose character is not in C (0 if none)
RECURSIVE RunBack(_, _, _)
RunBack(s, i, C) ==
    IF i < 1 \/ s[i] \notin C THEN i ELSE RunBack(s, i - 1, C)

\* s.strip()
Strip(s) ==
    LET a == RunIn(s, 1, WhiteSpace)
        b == RunBack(s, Len(s), WhiteSpace)
    IN  IF a > b THEN <<>> ELSE SubSeq(s, a, b)

\* RStripSlash leaving the path as it is
RStripSlashNever(s) == s

\* s.rstrip('/')
RStripSlash(s) == SubSeq(s, 1, RunBack(s, Len(s), {"/"}))

\* s.startswith(p)
StartsWith(s, p) == Len(s) >= Len(p) /\ SubSeq(s, 1, Len(p)) = p

\* p in s (substring test)
Contains(s, p) ==
    \E i \in 1..(Len(s) - Len(p) + 1) : SubSeq(s, i, i + Len(p) - 1) = p

\* s.split(c) for a one-character separator: every separator cuts, empty
\* pieces are kept
RECURSIVE SplitChar(_, _)
SplitChar(s, c) ==
    LET k == RunNotIn(s, 1, {c})
    IN  IF k > Len(s) THEN <<s>>
        ELSE <<SubSeq(s, 1, k - 1)>> \o SplitChar(SubSeq(s, k + 1, Len(s)), c)

\* s.splitlines(): cuts at \n, \r and \r\n; no empty piece after a final
\* line break
RECURSIVE SplitLines(_)
SplitLines(s) ==
    IF s = <<>> THEN <<>>
    ELSE LET k == RunNotIn(s, 1, {"\n", "\r"})
             n == IF k < Len(s) /\ s[k] = "\r" /\ s[k + 1] = "\n" THEN k + 2 ELSE k + 1
         IN  IF k > Len(s) THEN <<s>>
             ELSE <<SubSeq(s, 1, k - 1)>> \o SplitLines(SubSeq(s, n, Len(s)))

\* s.split(): cuts at runs of whitespace, no empty pieces
RECURSIVE SplitWords(_)
SplitWords(s) ==
    LET a == RunIn(s, 1, WhiteSpace)
        b == RunNotIn(s, a, WhiteSpace)
    IN  IF a > Len(s) THEN <<>>
        ELSE <<SubSeq(s, a, b - 1)>> \o SplitWords(SubSeq(s, b, Len(s)))

DigitVal(c) ==
    CASE c = "0" -> 0 [] c = "1" -> 1 [] c = "2" -> 2 [] c = "3" -> 3
      [] c = "4" -> 4 [] c = "5" -> 5 [] c = "6" -> 6 [] c = "7" -> 7
      [] c = "8" -> 8 [] c = "9" -> 9

\* int(s) for a string of decimal digits
RECURSIVE ToInt(_)
ToInt(s) ==
    IF s = <<>> THEN 0
    ELSE 10 * ToInt(SubSeq(s, 1, Len(s) - 1)) + DigitVal(s[Len(s)])

\* the concatenation of the sequences of ss
RECURSIVE Concat(_)
Concat(ss) == IF ss = <<>> THEN <<>> ELSE Head(ss) \o Concat(Tail(ss))

(***************************************************************************)
(* handler.py: the command executor.                                       *)
(***************************************************************************)
\* a record of the logger 'ADBHandler' (level WARNING: debug records are
\* dropped by the logger) or a print() to the console
LogRec(level, msg, arg) == [level |-> level, msg |-> msg, arg |-> arg]

\* ADBHandler._escape_path: both replace() calls act on single characters
\* and neither produces a character the other replaces
EscapeChar(c) ==
    IF c = "\"" THEN <<"\\", "\"">>
    ELSE IF c = "'" THEN <<"\\", "'">>
    ELSE <<c>>

_escape_path(path) ==
    <<"\"">> \o Concat([i \in 1..Len(path) |-> EscapeChar(path[i])]) \o <<"\"">>

\* subprocess.run(..., timeout=30): how long one command can block, in seconds
Timeout == 30

\* the argument list given to _run_adb_command: the adb subcommand, and for
\* "shell" the remote command (its verb and the operands the f-string embeds)
Command(sub, verb, operands) == [sub |-> sub, verb |-> verb, operands |-> operands]

\* ' '.join(operands): the part of ' '.join(cmd) that follows the subcommand
\* (and, in a shell command string, the verb)
RECURSIVE JoinSpace(_)
JoinSpace(operands) ==
    IF operands = <<>> THEN <<>>
    ELSE IF Len(operands) = 1 THEN operands[1]
    ELSE operands[1] \o <<" ">> \o JoinSpace(Tail(operands))

\* _run_adb_command that re-raises TimeoutExpired without logging it
TimedOutLogDropped(command) == <<>>

\* the records _run_adb_command logs when the command timed out
TimedOutLog(command) ==
    <<LogRec("error", "Command timed out", JoinSpace(command.operands))>>

\* ADBHandler._run_adb_command against the answer o of the process boundary:
\* the spawned command line ('-s', serial only if a serial is bound), and
\* either the CompletedProcess or the exception that leaves the method
_run_adb_command(self, command, o) ==
    [ cmd  |-> [serial |-> self.device_serial, command |-> command],
      exc  |-> CASE o.kind = "completed" -> "none"
                 [] o.kind = "timeout"   -> "TimeoutExpired"
                 [] o.kind = "notfound"  -> "FileNotFoundError"
                 [] OTHER                -> "OSError",
      returncode |-> o.rc,
      stdout     |-> o.out,
      logs |-> IF o.kind = "timeout" THEN TimedOutLog(command) ELSE <<>> ]

\* what a Facade method hands back: its return value, the exception that
\* leaves it ("none" if it returns), the processes it spawned and its records
Returned(ret, spawned, logs) ==
    [ret |-> ret, raised |-> "none", spawned |-> spawned, logs |-> logs]

Raised(exc, spawned, logs) ==
    [ret |-> FALSE, raised |-> exc, spawned |-> spawned, logs |-> logs]

NotConnected(ret) ==
    Returned(ret, <<>>, <<LogRec("error", "No ADB device connected", <<>>)>>)

(***************************************************************************)
(* handler.py: the directory listing parser inside list_directory.         *)
(***************************************************************************)
IsDate(s, i) ==
    /\ i + 9 <= Len(s)
    /\ \A k \in {0, 1, 2, 3, 5, 6, 8, 9} : s[i + k] \in Digit
    /\ s[i + 4] = "-" /\ s[i + 7] = "-"

IsTime(s, i) ==
    /\ i + 4 <= Len(s)
    /\ \A k \in {0, 1, 3, 4} : s[i + k] \in Digit
    /\ s[i + 2] = ":"

\* the pattern of list_directory, piece by piece:
\*   ^([\-dlcbpsrwxStT]+)\s+\d+\s+\S+\s+\S+\s+(\d+)\s+
\*    (\d{4}-\d{2}-\d{2})\s+(\d{2}:\d{2})\s+(.+)$
ListingPattern ==
    << "perm+", "ws+", "digit+", "ws+", "nonws+", "ws+", "nonws+", "ws+",
       "digit+", "ws+", "date", "ws+", "time", "ws+" >>

\* where the piece ends that starts at i (i itself if it does not match).
\* No class of the pattern overlaps the class of the piece that follows it,
\* so a greedy run ends where its class ends and backtracking finds nothing
\* else.
PieceEnd(piece, s, i) ==
    CASE piece = "perm+"  -> RunIn(s, i, PermChar)
      [] piece = "ws+"    -> RunIn(s, i, WhiteSpace)
      [] piece = "digit+" -> RunIn(s, i, Digit)
      [] piece = "nonws+" -> RunNotIn(s, i, WhiteSpace)
      [] piece = "date"   -> IF IsDate(s, i) THEN i + 10 ELSE i
      [] piece = "time"   -> IF IsTime(s, i) THEN i + 5 ELSE i

\* the start of every piece and the end of the last one; 0 ends the
\* sequence where a piece does not match
RECURSIVE Scan(_, _, _)
Scan(s, i, pieces) ==
    IF pieces = <<>> THEN <<i>>
    ELSE With(PieceEnd(Head(pieces), s, i),
              LAMBDA j : IF j = i THEN <<i, 0>>
                         ELSE <<i>> \o Scan(s, j, Tail(pieces)))

\* pattern.match(line) and the groups of the match; (.+)$ takes what is left
\* after the last piece and needs one character
PatternMatch(s) ==
    With(Scan(s, 1, ListingPattern),
         LAMBDA b :
            IF b[Len(b)] # 0 /\ b[Len(b)] <= Len(s)
            THEN [ok |-> TRUE,
                  g1 |-> SubSeq(s, b[1], b[2] - 1),
                  g2 |-> SubSeq(s, b[9], b[10] - 1),
                  g3 |-> SubSeq(s, b[11], b[12] - 1),
                  g4 |-> SubSeq(s, b[13], b[14] - 1),
                  g5 |-> SubSeq(s, b[15], Len(s))]
            ELSE [ok |-> FALSE, g1 |-> <<>>, g2 |-> <<>>, g3 |-> <<>>,
                  g4 |-> <<>>, g5 |-> <<>>])

\* perms.startswith('d')
IsDir(perms) == StartsWith(perms, <<"d">>)

\* FileItem with size=0 if perms.startswith('d') else int(size)
FileItemZeroForDirs(m, path) ==
    [ name          |-> m.g5,
      path          |-> RStripSlash(path) \o <<"/">> \o m.g5,
      is_dir        |-> IsDir(m.g1),
      size          |-> IF IsDir(m.g1) THEN 0 ELSE ToInt(m.g2),
      permissions   |-> m.g1,
      date_modified |-> m.g3 \o <<" ">> \o m.g4 ]

\* FileItem(name=..., path=..., is_dir=..., size=..., permissions=..., date_modified=...)
FileItem(m, path) ==
    [ name          |-> m.g5,
      path          |-> RStripSlash(path) \o <<"/">> \o m.g5,
      is_dir        |-> IsDir(m.g1),
      size          |-> ToInt(m.g2),
      permissions   |-> m.g1,
      date_modified |-> m.g3 \o <<" ">> \o m.g4 ]

\* SkipName letting '.' and '..' through
SkipNameNever(name) == FALSE

\* name in ['.', '..']
SkipName(name) == name \in {<<".">>, <<".", ".">>}

\* one turn of the loop of list_directory: the items a line adds
ItemsOf(rawline, path) ==
    With(Strip(rawline),
         LAMBDA line :
            IF line = <<>> \/ StartsWith(line, <<"t", "o", "t", "a", "l">>)
            THEN <<>>
            ELSE With(PatternMatch(line),
                      LAMBDA m : IF ~m.ok THEN <<>>
                                 ELSE IF SkipName(m.g5) THEN <<>>
                                 ELSE <<FileItem(m, path)>>))

\* the loop of list_directory over the lines of stdout
RECURSIVE ParseLines(_, _)
ParseLines(lines, path) ==
    IF lines = <<>> THEN <<>>
    ELSE ItemsOf(Head(lines), path) \o ParseLines(Tail(lines), path)

\* items, from result.stdout.split('\n')
ParseListing(stdout, path) == ParseLines(SplitChar(stdout, "\n"), path)

(***************************************************************************)
(* handler.py: the File Operation Facade.  Every method takes the session  *)
(* (self), its arguments and the answer(s) of the process boundary.        *)
(***************************************************************************)
\* Disconnected with the guard left out
GuardOff(self) == FALSE

\* if not self.device_connected: ... return
Disconnected(self) == ~self.device_connected

\* Clause of a try statement that has only the except TimeoutExpired clause
ClauseTimeoutOnly(exc) ==
    IF exc = "TimeoutExpired" THEN "TimeoutExpired" ELSE "uncaught"

\* Clause of a try statement that lets TimeoutExpired through
ClauseNotOfTimeout(exc) ==
    IF exc = "TimeoutExpired" THEN "uncaught" ELSE "Exception"

\* the except clause of a Facade method's try statement that catches exc
Clause(exc) ==
    IF exc = "TimeoutExpired" THEN "TimeoutExpired" ELSE "Exception"

\* ExitOk ignoring the exit status
ExitOkAlways(returncode) == TRUE

\* result.returncode == 0
ExitOk(returncode) == returncode = 0

\* the body shared by pull_file, push_file, rename_item, delete_item,
\* create_file and create_folder: guard, one command, returncode == 0,
\* the two except clauses with their log records
BoolOp(self, command, o, what, target) ==
    IF Disconnected(self) THEN NotConnected(FALSE)
    ELSE LET r == _run_adb_command(self, command, o)
         IN  CASE r.exc = "none" ->
                    Returned(ExitOk(r.returncode), <<r.cmd>>, r.logs)
               [] r.exc # "none" /\ Clause(r.exc) = "TimeoutExpired" ->
                    Returned(FALSE, <<r.cmd>>,
                             r.logs \o <<LogRec("error", "Timeout " \o what, target)>>)
               [] r.exc # "none" /\ Clause(r.exc) = "Exception" ->
                    Returned(FALSE, <<r.cmd>>,
                             r.logs \o <<LogRec("error", "Error " \o what, <<>>)>>)
               [] OTHER -> Raised(r.exc, <<r.cmd>>, r.logs)

list_directory(self, path, o) ==
    IF Disconnected(self) THEN NotConnected(<<>>)
    ELSE LET r == _run_adb_command(self,
                      Command("shell", "ls -la", <<_escape_path(path)>>), o)
         IN  CASE r.exc = "none" ->
                    IF r.returncode # 0
                    THEN Returned(<<>>, <<r.cmd>>,
                                  r.logs \o <<LogRec("error", "ADB Error", <<>>)>>)
                    ELSE Returned(ParseListing(r.stdout, path), <<r.cmd>>, r.logs)
               [] r.exc # "none" /\ Clause(r.exc) = "TimeoutExpired" ->
                    Returned(<<>>, <<r.cmd>>,
                             r.logs \o <<LogRec("error", "Timeout listing directory", path)>>)
               [] r.exc # "none" /\ Clause(r.exc) = "Exception" ->
                    Returned(<<>>, <<r.cmd>>,
                             r.logs \o <<LogRec("error", "Error listing directory", <<>>)>>)
               [] OTHER -> Raised(r.exc, <<r.cmd>>, r.logs)

pull_file(self, remote_path, local_path, o) ==
    BoolOp(self, Command("pull", "", <<remote_path, local_path>>), o,
           "pulling file", remote_path)

rename_item(self, old_path, new_path, o) ==
    BoolOp(self, Command("shell", "mv",
                         <<_escape_path(old_path), _escape_path(new_path)>>), o,
           "renaming", old_path)

\* cmd = f'rm -r {escaped_path}' if is_dir else f'rm {escaped_path}'
RmVerb(is_dir) == IF is_dir THEN "rm -r" ELSE "rm"

delete_item(self, path, is_dir, o) ==
    BoolOp(self, Command("shell", RmVerb(is_dir), <<_escape_path(path)>>), o,
           "deleting", path)

create_file(self, remote_path, o) ==
    BoolOp(self, Command("shell", "touch", <<_escape_path(remote_path)>>), o,
           "creating file", remote_path)

create_folder(self, remote_path, o) ==
    BoolOp(self, Command("shell", "mkdir -p", <<_escape_path(remote_path)>>), o,
           "creating folder", remote_path)

push_file(self, local_path, remote_path, o) ==
    BoolOp(self, Command("push", "", <<local_path, remote_path>>), o,
           "pushing file", local_path)

\* '/'.join(pieces)
RECURSIVE JoinSlash(_)
JoinSlash(pieces) ==
    IF pieces = <<>> THEN <<>>
    ELSE IF Len(pieces) = 1 THEN pieces[1]
    ELSE pieces[1] \o <<"/">> \o JoinSlash(Tail(pieces))

\* ParentDir taking the destination itself for the directory to create
ParentDirIsDest(dest_path) == dest_path

\* '/'.join(dest_path.split('/')[:-1])
ParentDir(dest_path) ==
    LET pieces == SplitChar(dest_path, "/")
    IN  JoinSlash(SubSeq(pieces, 1, Len(pieces) - 1))

\* the body shared by copy_on_device and move_on_device: guard, create_folder
\* on the parent when it is not empty (answer o1), then the command itself
\* (answer o2); the except clauses print instead of logging
OnDeviceOp(self, verb, src_path, dest_path, o1, o2, what) ==
    IF Disconnected(self) THEN NotConnected(FALSE)
    ELSE LET parent_dir == ParentDir(dest_path)
             mk == IF parent_dir # <<>>
                   THEN create_folder(self, parent_dir, o1)
                   ELSE Returned(FALSE, <<>>, <<>>)
             r  == _run_adb_command(self,
                       Command("shell", verb,
                               <<_escape_path(src_path), _escape_path(dest_path)>>), o2)
             spawned == mk.spawned \o <<r.cmd>>
             logs    == mk.logs \o r.logs
         IN  CASE mk.raised # "none" -> Raised(mk.raised, mk.spawned, mk.logs)
               [] mk.raised = "none" /\ r.exc = "none" ->
                    Returned(ExitOk(r.returncode), spawned, logs)
               [] mk.raised = "none" /\ r.exc # "none"
                    /\ Clause(r.exc) = "TimeoutExpired" ->
                    Returned(FALSE, spawned,
                             logs \o <<LogRec("print", "Timeout " \o what, src_path)>>)
               [] mk.raised = "none" /\ r.exc # "none"
                    /\ Clause(r.exc) = "Exception" ->
                    Returned(FALSE, spawned,
                             logs \o <<LogRec("print", "Error " \o what, <<>>)>>)
               [] OTHER -> Raised(r.exc, spawned, logs)

copy_on_device(self, src_path, dest_path, o1, o2) ==
    OnDeviceOp(self, "cp -r", src_path, dest_path, o1, o2, "copying")

move_on_device(self, src_path, dest_path, o1, o2) ==
    OnDeviceOp(self, "mv", src_path, dest_path, o1, o2, "moving")

(***************************************************************************)
(* handler.py: device discovery, session construction, connection check.   *)
(***************************************************************************)
\* a dict as a function; {} is the function with the empty domain
EmptyDict == [k \in {} |-> <<>>]

\* d[k] = v
DictPut(d, k, v) == [x \in (DOMAIN d) \cup {k} |-> IF x = k THEN v ELSE d[x]]

\* 'device ' in line and 'devices' not in line
Qualifies(line) ==
    /\ Contains(line, <<"d", "e", "v", "i", "c", "e", " ">>)
    /\ ~Contains(line, <<"d", "e", "v", "i", "c", "e", "s">>)

\* next((p.split(':')[1] for p in parts if p.startswith('model:')), 'Unknown')
RECURSIVE ModelOf(_)
ModelOf(parts) ==
    IF parts = <<>> THEN <<"U", "n", "k", "n", "o", "w", "n">>
    ELSE IF StartsWith(Head(parts), <<"m", "o", "d", "e", "l", ":">>)
         THEN SplitChar(Head(parts), ":")[2]
         ELSE ModelOf(Tail(parts))

\* the loop of get_connected_devices over result.stdout.splitlines()
RECURSIVE DevicesFrom(_, _)
DevicesFrom(lines, devices) ==
    IF lines = <<>> THEN devices
    ELSE LET line  == Head(lines)
             parts == SplitWords(line)
         IN  IF Qualifies(line)
             THEN DevicesFrom(Tail(lines),
                              DictPut(devices, parts[1], ModelOf(Tail(parts))))
             ELSE DevicesFrom(Tail(lines), devices)

\* ADBHandler.get_connected_devices; a single except Exception clause
get_connected_devices(self, o) ==
    LET r == _run_adb_command(self, Command("devices", "-l", <<>>), o)
    IN  CASE r.exc = "none" ->
               IF r.returncode # 0
               THEN Returned(EmptyDict, <<r.cmd>>,
                             r.logs \o <<LogRec("error", "Error getting devices", <<>>)>>)
               ELSE Returned(DevicesFrom(SplitLines(r.stdout), EmptyDict),
                             <<r.cmd>>, r.logs)
          [] r.exc # "none" /\ Clause(r.exc) \in {"TimeoutExpired", "Exception"} ->
               Returned(EmptyDict, <<r.cmd>>,
                        r.logs \o <<LogRec("error", "Error listing devices", <<>>)>>)
          [] OTHER -> Raised(r.exc, <<r.cmd>>, r.logs)

\* None / '' for device_serial
NoSerial == <<>>

\* next(iter(d.keys())) of a dict with one key
OnlyKey(d) == CHOOSE k \in DOMAIN d : TRUE

\* the serials of the devices an enumeration reports as ready
Ready(o) == {o.src[i].serial : i \in {k \in 1..Len(o.src) : o.src[k].state = "device"}}

\* what enum keeps of an answer of the process boundary, and the method
\* that asked for it
Enum(o, by) == [by |-> by, kind |-> o.kind, rc |-> o.rc, ready |-> Ready(o)]

\* the fields of an ADBHandler.  id numbers the objects in the order of their
\* construction and enum remembers the enumeration that device_connected was
\* last derived from; neither is read by the program.
Handler(id, device_serial, devices, device_connected, enum) ==
    [ id |-> id, device_serial |-> device_serial, devices |-> devices,
      device_connected |-> device_connected, enum |-> enum ]

\* elif not device_serial and len(self.devices) == 1:
\*     self.device_serial = next(iter(self.devices.keys()))
BindOnlyDevice(device_serial, devices) ==
    IF device_serial = NoSerial /\ Cardinality(DOMAIN devices) = 1
    THEN OnlyKey(devices)
    ELSE device_serial

\* ADBHandlerInit with device_connected = self.devices is not None
ADBHandlerInitNotNone(id, device_serial, o) ==
    With(get_connected_devices(Handler(id, device_serial, EmptyDict, FALSE,
                                       Enum(o, "get_connected_devices")), o),
         LAMBDA disc :
            [self |-> Handler(id,
                          IF DOMAIN disc.ret # {}
                          THEN BindOnlyDevice(device_serial, disc.ret)
                          ELSE device_serial,
                          disc.ret, TRUE, Enum(o, "get_connected_devices")),
             call |-> disc])

\* ADBHandler.__init__(device_serial) as the id-th object: the new object and
\* the discovery call it made
ADBHandlerInit(id, device_serial, o) ==
    With(get_connected_devices(Handler(id, device_serial, EmptyDict, FALSE, Enum(o, "get_connected_devices")), o),
         LAMBDA disc :
            IF disc.raised # "none"
            THEN [self |-> Handler(id, device_serial, EmptyDict, FALSE, Enum(o, "get_connected_devices")),
                  call |-> disc]
            ELSE IF DOMAIN disc.ret = {}
            THEN [self |-> Handler(id, device_serial, disc.ret, FALSE, Enum(o, "get_connected_devices")),
                  call |-> Returned(disc.ret, disc.spawned,
                               disc.logs \o
                               <<LogRec("warning", "No ADB device connected", <<>>)>>)]
            ELSE [self |-> Handler(id, BindOnlyDevice(device_serial, disc.ret),
                                   disc.ret, TRUE, Enum(o, "get_connected_devices")),
                  call |-> disc])

\* "device" in devices, for devices = result.stdout.strip()
CheckFinds(devices) == Contains(devices, <<"d", "e", "v", "i", "c", "e">>)

\* ADBHandler.check_adb_connection: except FileNotFoundError, except Exception
check_adb_connection(self, o) ==
    LET r == _run_adb_command(self, Command("devices", "", <<>>), o)
    IN  CASE r.exc = "none" ->
               Returned(CheckFinds(Strip(r.stdout)), <<r.cmd>>, r.logs)
          [] r.exc = "FileNotFoundError" ->
               Returned(FALSE, <<r.cmd>>,
                        r.logs \o <<LogRec("error", "ADB command not found", <<>>)>>)
          [] OTHER ->
               Returned(FALSE, <<r.cmd>>,
                        r.logs \o <<LogRec("error", "ADB Connection error", <<>>)>>)

(***************************************************************************)
(* The answers of the process boundary the model draws from.  Each text is *)
(* built from lines whose fields are known, and carries them along (src),  *)
(* so that what the program extracts can be compared with what was put in. *)
(***************************************************************************)
\* all sequences over S of length at most n
SeqsUpTo(S, n) == UNION {[1..k -> S] : k \in 0..n}

\* the lines, each ended by a line feed, as one text
RECURSIVE TextOf(_)
TextOf(lines) ==
    IF lines = <<>> THEN <<>>
    ELSE Head(lines).chars \o <<"\n">> \o TextOf(Tail(lines))

Completed(rc, out, src) == [kind |-> "completed", rc |-> rc, out |-> out, src |-> src]

Failed(kind) == [kind |-> kind, rc |-> 0 - 1, out |-> <<>>, src |-> <<>>]

\* subprocess.run raising TimeoutExpired, FileNotFoundError (no adb on the
\* PATH) or another exception
Faults == {Failed("timeout"), Failed("notfound"), Failed("fault")}

\* what a command without interesting output can answer
PlainOutcomes == {Completed(0, <<>>, <<>>), Completed(1, <<>>, <<>>)} \cup Faults

DateIn == <<"2", "0", "2", "4", "-", "0", "1", "-", "1", "5">>
TimeIn == <<"1", "0", ":", "3", "0">>

\* a long-format line: permissions, link count, owner, group, size, date,
\* time and name, separated by sep and followed by tail
EntryLine(perms, size, name, sep, tail) ==
    [ kind  |-> "entry",
      chars |-> perms \o sep \o <<"1">> \o sep \o <<"u">> \o sep \o <<"g">> \o sep
                \o size[1] \o sep \o DateIn \o sep \o TimeIn \o sep \o name[1] \o tail,
      perms |-> perms, size |-> size[2], date |-> DateIn, time |-> TimeIn,
      name  |-> name[1], trimmed |-> name[2] ]

OtherLine(kind, chars) ==
    [ kind |-> kind, chars |-> chars, perms |-> <<>>, size |-> 0, date |-> <<>>,
      time |-> <<>>, name |-> <<>>, trimmed |-> TRUE ]

PermsIn == {<<"d", "r", "w", "x", "r", "-", "x", "r", "-", "x">>, <<"-", "r", "w", "-", "r", "-", "-", "r", "-", "-">>, <<"l", "r", "w", "x", "r", "w", "x", "r", "w", "x">>}

\* size fields with the numbers they denote
SizesIn == {<<<<"0">>, 0>>, <<<<"4", "0", "9", "6">>, 4096>>}

\* names, and whether they begin and end with a character that is no space
NamesIn ==
    { <<<<"a">>, TRUE>>, <<<<"a", " ", "b">>, TRUE>>, <<<<".">>, TRUE>>,
      <<<<".", ".">>, TRUE>>, <<<<".", "x">>, TRUE>>, <<<<"b", " ">>, FALSE>> }

SepsIn == {<<" ">>, <<" ", " ">>}

\* nothing, or the carriage return of a CRLF line end
TailsIn == {<<>>, <<"\r">>}

EntryLines ==
    { EntryLine(p, z, n, s, t) :
        p \in PermsIn, z \in SizesIn, n \in NamesIn, s \in SepsIn, t \in TailsIn }

\* lines no entry comes from: blank, the summary, the sentinel of the
\* '|| echo "error"' fallback, a line cut after the time, a mode string with
\* a character outside the class
OtherLines ==
    { OtherLine("blank", <<>>),
      OtherLine("total", <<"t", "o", "t", "a", "l", " ", "8">>),
      OtherLine("error", <<"e", "r", "r", "o", "r">>),
      OtherLine("garbage", <<"d", "r", "w", "x", " ", "1", " ", "u", " ", "g", " ", "0", " ", "2", "0", "2", "4", "-", "0", "1", "-", "1", "5", " ", "1", "0", ":", "3", "0">>),
      OtherLine("garbage", <<"d", "r", "w", "x", "+", " ", "1", " ", "u", " ", "g", " ", "0", " ", "2", "0", "2", "4", "-", "0", "1", "-", "1", "5", " ", "1", "0", ":", "3", "0", " ", "a">>) }

\* the lines multi-line texts are made of
FewLines ==
    { EntryLine(<<"d", "r", "w", "x", "r", "-", "x", "r", "-", "x">>, <<<<"4", "0", "9", "6">>, 4096>>, <<<<"a">>, TRUE>>, <<" ">>, <<>>),
      EntryLine(<<"-", "r", "w", "-", "r", "-", "-", "r", "-", "-">>, <<<<"0">>, 0>>, <<<<"a", " ", "b">>, TRUE>>, <<" ", " ">>, <<>>),
      EntryLine(<<"d", "r", "w", "x", "r", "-", "x", "r", "-", "x">>, <<<<"0">>, 0>>, <<<<".", ".">>, TRUE>>, <<" ">>, <<>>),
      EntryLine(<<"-", "r", "w", "-", "r", "-", "-", "r", "-", "-">>, <<<<"0">>, 0>>, <<<<"a", " ">>, FALSE>>, <<" ">>, <<>>) }
    \cup OtherLines

\* listing texts: every single line, and the texts of up to MaxLines few lines
ListingSrcs ==
    {<<l>> : l \in EntryLines} \cup SeqsUpTo(FewLines, MaxLines)

ListingOutcomes ==
    {Completed(0, TextOf(src), src) : src \in ListingSrcs}
    \cup {Completed(1, <<>>, <<>>)} \cup Faults

\* the listing answers the window model draws from
FewListingOutcomes ==
    {Completed(0, TextOf(src), src) : src \in SeqsUpTo(FewLines, 1)}
    \cup {Completed(1, <<>>, <<>>)} \cup Faults

\* a line of adb devices: what it prints, the serial, the model it names
\* (<<>> if none) and the state of the device
DevLine(chars, serial, model, state) ==
    [chars |-> chars, serial |-> serial, model |-> model, state |-> state]

\* lines of 'adb devices -l'
LongDevLines ==
    { DevLine(<<"A", " ", "d", "e", "v", "i", "c", "e", " ", "p", "r", "o", "d", "u", "c", "t", ":", "x", " ", "m", "o", "d", "e", "l", ":", "P", " ", "d", "e", "v", "i", "c", "e", ":", "x">>, <<"A">>, <<"P">>, "device"),
      DevLine(<<"B", " ", "d", "e", "v", "i", "c", "e", " ", "u", "s", "b", ":", "1">>, <<"B">>, <<>>, "device"),
      DevLine(<<"B", " ", "o", "f", "f", "l", "i", "n", "e", " ", "u", "s", "b", ":", "1">>, <<"B">>, <<>>, "offline"),
      DevLine(<<"A", " ", " ", "d", "e", "v", "i", "c", "e">>, <<"A">>, <<>>, "device") }

\* lines of 'adb devices'
ShortDevLines ==
    { DevLine(<<"A", "\t", "d", "e", "v", "i", "c", "e">>, <<"A">>, <<>>, "device"),
      DevLine(<<"B", "\t", "d", "e", "v", "i", "c", "e">>, <<"B">>, <<>>, "device"),
      DevLine(<<"B", "\t", "o", "f", "f", "l", "i", "n", "e">>, <<"B">>, <<>>, "offline") }

HeaderLine == [chars |-> <<"L", "i", "s", "t", " ", "o", "f", " ", "d", "e", "v", "i", "c", "e", "s", " ", "a", "t", "t", "a", "c", "h", "e", "d">>]

\* one line per attached device
DistinctSerials(src) ==
    \A i, j \in 1..Len(src) : i # j => src[i].serial # src[j].serial

\* the header, the device lines and the empty line adb ends with
DevText(src) == TextOf(<<HeaderLine>> \o src) \o <<"\n">>

DevOutcomesOver(lines) ==
    {Completed(0, DevText(src), src) :
        src \in {x \in SeqsUpTo(lines, MaxDevLines) : DistinctSerials(x)}}
    \cup {Completed(1, <<>>, <<>>)} \cup Faults

LongDevOutcomes == DevOutcomesOver(LongDevLines)

ShortDevOutcomes == DevOutcomesOver(ShortDevLines)

\* the rows selected for 'Copy to': (name, is_dir)
ItemsIn ==
    {[name |-> n, is_dir |-> d] : n \in {<<"a">>, <<"q", "'">>}, d \in BOOLEAN}

\* what the commands of a batch answer
BatchOutcomes == {Completed(0, <<>>, <<>>), Completed(1, <<>>, <<>>), Failed("timeout")}

\* the selections of up to MaxItems rows with the answers to their commands
\* and to the listing that follows
CopyCalls ==
    UNION { [items : [1..n -> ItemsIn],
             outs : { bo \o <<lo>> : bo \in [1..(2 * n) -> BatchOutcomes],
                                      lo \in {Completed(1, <<>>, <<>>), Failed("timeout")} }]
            : n \in 1..MaxItems }

\* the folder chosen in SelectDirectoryDialog: the '..' row of the start path
TargetPath == <<"/", "s", "t", "o", "r", "a", "g", "e", "/", "e", "m", "u", "l", "a", "t", "e", "d">>

\* remote and local paths handed to the Facade
PathsIn == {<<"/", "a">>, <<"/", "a", "/", "b">>, <<"/", "q", "\"">>}

\* directories handed to list_directory
ListPathsIn == {<<"/", "a">>, <<"/", "a", "/">>, <<"/">>}

\* destinations of copy_on_device and move_on_device: directly under '/',
\* one level down, and a bare name
DestPathsIn == {<<"/", "a">>, <<"/", "a", "/", "b">>, <<"b">>}

LocalPathsIn == {<<"C", ":", "/", "t">>}

\* "/storage/emulated/0".rstrip("/")
DefaultRoot == <<"/", "s", "t", "o", "r", "a", "g", "e", "/", "e", "m", "u", "l", "a", "t", "e", "d", "/", "0">>

(***************************************************************************)
(* main.py: the window's use of the session.                               *)
(***************************************************************************)
\* the record of a handler: its name and arguments, the answers of the
\* process boundary it consumed, and what it returned, spawned and logged
Call(op, args, out, res) == [op |-> op, args |-> args, out |-> out, res |-> res]

NoCall == Returned(FALSE, <<>>, <<>>)

Dialog(titleText) == LogRec("dialog", titleText, <<>>)

\* before ADBFileExplorer.__init__ has constructed the first ADBHandler
NoHandler == Handler(0, NoSerial, EmptyDict, FALSE, Enum(Failed("none"), "none"))

\* the printable ASCII characters in the order of their code points (the
\* grave accent, which no text of the model holds, by its name)
Ascii ==
    <<" ", "!", "\"", "#", "$", "%", "&", "'", "(", ")", "*", "+", ",", "-", ".", "/",
      "0", "1", "2", "3", "4", "5", "6", "7", "8", "9", ":", ";", "<", "=", ">", "?",
      "@", "A", "B", "C", "D", "E", "F", "G", "H", "I", "J", "K", "L", "M", "N", "O",
      "P", "Q", "R", "S", "T", "U", "V", "W", "X", "Y", "Z", "[", "\\", "]", "^", "_",
      "grave", "a", "b", "c", "d", "e", "f", "g", "h", "i", "j", "k", "l", "m", "n", "o",
      "p", "q", "r", "s", "t", "u", "v", "w", "x", "y", "z", "{", "|", "}", "~">>

\* ord(c)
CodePoint(c) == 31 + (CHOOSE i \in 1..Len(Ascii) : Ascii[i] = c)

\* str.lower()
Lower(s) ==
    [i \in 1..Len(s) |->
        IF CodePoint(s[i]) >= 65 /\ CodePoint(s[i]) <= 90
        THEN Ascii[CodePoint(s[i]) + 1] ELSE s[i]]

\* a < b for two str
RECURSIVE LessStr(_, _)
LessStr(a, b) ==
    IF b = <<>> THEN FALSE
    ELSE IF a = <<>> THEN TRUE
    ELSE IF a[1] # b[1] THEN CodePoint(a[1]) < CodePoint(b[1])
    ELSE LessStr(Tail(a), Tail(b))

\* f put into the list sorted by name.lower(), after the entries that do
\* not come after it (sorted() is stable)
RECURSIVE Insert(_, _)
Insert(f, sorted) ==
    IF sorted = <<>> THEN <<f>>
    ELSE IF LessStr(Lower(f.name), Lower(Head(sorted).name))
    THEN <<f>> \o sorted
    ELSE <<Head(sorted)>> \o Insert(f, Tail(sorted))

\* sorted(files, key=lambda x: x.name.lower())
RECURSIVE Sorted(_)
Sorted(files) ==
    IF files = <<>> THEN <<>>
    ELSE Insert(files[Len(files)], Sorted(SubSeq(files, 1, Len(files) - 1)))

\* a row of the tree model: its Name and Type columns
Row(name, type) == [name |-> name, type |-> type]

\* the row apply_search_filter puts first outside the default root
ParentRow == Row(<<".", ".">>, "Directory")

\* if self.current_path.rstrip("/") != "/storage/emulated/0"
OffersParent(path) == RStripSlash(path) # DefaultRoot

\* ADBFileExplorer.apply_search_filter: the rows of the tree model for the
\* listing files of path under the text of the search bar
apply_search_filter(files, path, search_text) ==
    LET filtered == SelectSeq(files, LAMBDA f : Contains(Lower(f.name), search_text))
        dirs == Sorted(SelectSeq(filtered, LAMBDA f : f.is_dir))
        regular_files == Sorted(SelectSeq(filtered, LAMBDA f : ~f.is_dir))
        sorted_files == dirs \o regular_files
    IN  (IF OffersParent(path) THEN <<ParentRow>> ELSE <<>>)
        \o [i \in 1..Len(sorted_files) |->
               Row(sorted_files[i].name,
                   IF sorted_files[i].is_dir THEN "Directory" ELSE "File")]

\* the text of the search bar
NoSearch == <<>>

\* ADBFileExplorer.refresh_files on path with the listing answer o: the new
\* all_files, status and rows (shown: the tree model was rebuilt, which
\* clears the selection), and the list_directory call it made (if any)
refresh_files(self, files, rows, path, o) ==
    IF ~self.device_connected
    THEN [all_files |-> files, status |-> "No ADB device connected",
          tree_model |-> rows, shown |-> FALSE,
          call |-> NoCall, out |-> <<>>]
    ELSE With(list_directory(self, path, o),
              LAMBDA l :
                 IF l.raised # "none"
                 THEN [all_files |-> files, status |-> "Refreshing",
                       tree_model |-> rows, shown |-> FALSE,
                       call |-> l, out |-> <<o>>]
                 ELSE [all_files |-> l.ret, status |-> "Found items",
                       tree_model |-> apply_search_filter(l.ret, path, NoSearch),
                       shown |-> TRUE,
                       call |-> l, out |-> <<o>>])

\* what a handler that ended with refresh_files leaves in the window
Refreshed(r) ==
    /\ all_files' = r.all_files
    /\ status' = r.status
    /\ tree_model' = r.tree_model
    /\ selection' = IF r.shown THEN {} ELSE selection

\* self.clipboard as setup_ui creates it
EmptyClipboard == [items |-> <<>>, operation |-> "None"]

\* the browsing state setup_ui leaves, before the first listing is shown
AfterSetup ==
    /\ current_path = DefaultRoot
    /\ path_history = <<DefaultRoot>>
    /\ back_btn = FALSE
    /\ tree_model = <<>>
    /\ selection = {}
    /\ clipboard = EmptyClipboard

\* f"'{path}'": the quoting copy_items_to_path gives the paths of its own
\* shell command
SingleQuoted(path) == <<"'">> \o path \o <<"'">>

\* os.path.join(tempfile.gettempdir(), name)
TempFile(name) == <<"T", "/">> \o name

\* the body of the loop of copy_items_to_path for one item, with the answers
\* o1 and o2 of the process boundary: for a directory create_folder(dest)
\* and the window's own 'cp -r' through _run_adb_command, both inside
\* try/except Exception; for a file pull_file to a temporary file and, if
\* that succeeded, push_file to dest
CopyItem(self, item, source, dest, o1, o2) ==
    IF item.is_dir
    THEN LET mk == create_folder(self, dest, o1)
             r  == _run_adb_command(self,
                       Command("shell", "cp -r",
                               <<SingleQuoted(source), SingleQuoted(dest)>>), o2)
         IN  IF mk.raised # "none"
             THEN [success |-> FALSE, spawned |-> mk.spawned,
                   logs |-> mk.logs \o <<LogRec("print", "Error copying directory", item.name)>>]
             ELSE IF r.exc # "none"
             THEN [success |-> FALSE, spawned |-> mk.spawned \o <<r.cmd>>,
                   logs |-> mk.logs \o r.logs
                            \o <<LogRec("print", "Error copying directory", item.name)>>]
             ELSE [success |-> r.returncode = 0, spawned |-> mk.spawned \o <<r.cmd>>,
                   logs |-> mk.logs \o r.logs]
    ELSE LET pl == pull_file(self, source, TempFile(item.name), o1)
             ps == push_file(self, TempFile(item.name), dest, o2)
         IN  IF pl.raised # "none"
             THEN [success |-> FALSE, spawned |-> pl.spawned,
                   logs |-> pl.logs \o <<LogRec("print", "Error copying file", item.name)>>]
             ELSE IF ~pl.ret
             THEN [success |-> FALSE, spawned |-> pl.spawned, logs |-> pl.logs]
             ELSE IF ps.raised # "none"
             THEN [success |-> FALSE, spawned |-> pl.spawned \o ps.spawned,
                   logs |-> pl.logs \o ps.logs
                            \o <<LogRec("print", "Error copying file", item.name)>>]
             ELSE [success |-> ps.ret, spawned |-> pl.spawned \o ps.spawned,
                   logs |-> pl.logs \o ps.logs]

\* the loop of copy_items_to_path over items, two answers of outs per item:
\* the number of successes, the commands spawned and the records
RECURSIVE CopyLoop(_, _, _, _, _)
CopyLoop(self, items, path, target_path, outs) ==
    IF items = <<>> THEN [success_count |-> 0, spawned |-> <<>>, logs |-> <<>>]
    ELSE With(CopyItem(self, Head(items),
                       RStripSlash(path) \o <<"/">> \o Head(items).name,
                       RStripSlash(target_path) \o <<"/">> \o Head(items).name,
                       outs[1], outs[2]),
              LAMBDA c :
                With(CopyLoop(self, Tail(items), path, target_path,
                              SubSeq(outs, 3, Len(outs))),
                     LAMBDA rest :
                        [success_count |-> (IF c.success THEN 1 ELSE 0) + rest.success_count,
                         spawned |-> c.spawned \o rest.spawned,
                         logs |-> c.logs \o rest.logs]))

\* ADBFileExplorer.copy_items_to_path(items, target_path) with the answers
\* outs (two per item, then the one of the listing): the guard, the loop,
\* the success or warning message and refresh_files
copy_items_to_path(self, files, rows, items, path, target_path, outs) ==
    IF ~self.device_connected
    THEN [all_files |-> files, status |-> "Error: Connection Error",
          tree_model |-> rows, shown |-> FALSE,
          call |-> Returned(FALSE, <<>>, <<Dialog("Connection Error")>>)]
    ELSE With(CopyLoop(self, items, path, target_path, outs),
              LAMBDA l :
                With(refresh_files(self, files, rows, path, outs[Len(outs)]),
                     LAMBDA r :
                        [all_files |-> r.all_files,
                         status |-> r.status,
                         tree_model |-> r.tree_model,
                         shown |-> r.shown,
                         call |-> [ret |-> l.success_count = Len(items),
                                   raised |-> r.call.raised,
                                   spawned |-> l.spawned \o r.call.spawned,
                                   logs |-> l.logs
                                     \o (IF l.success_count = Len(items) THEN <<>>
                                         ELSE <<Dialog("Copy Warning")>>)
                                     \o r.call.logs]]))

\* ADBFileExplorer.update_connection_status
ConnectionLabel(self) == IF self.device_connected THEN "Connected" ELSE "Disconnected"

\* f"ADB File Explorer - {devices[serial]} ({serial})"
TitleFor(self, serial) == [model |-> self.devices[serial], serial |-> serial]

PlainTitle == [model |-> <<>>, serial |-> <<>>]

Init ==
    /\ pc = "start"
    /\ session = NoHandler
    /\ nsessions = 0
    /\ all_files = <<>>
    /\ status = "Ready"
    /\ connection_label = ""
    /\ title = PlainTitle
    /\ last = Call("none", <<>>, <<>>, NoCall)
    /\ stack = <<>>
    /\ inflight = {}
    /\ current_path = <<>>
    /\ path_history = <<>>
    /\ back_btn = TRUE
    /\ tree_model = <<>>
    /\ selection = {}
    /\ clipboard = EmptyClipboard

\* ADBFileExplorer.__init__: self.adb_handler = ADBHandler()
AppStart ==
    /\ pc = "start"
    /\ \E o \in LongDevOutcomes :
        \E c \in {ADBHandlerInit(1, NoSerial, o)} :
            /\ session' = c.self
            /\ nsessions' = 1
            /\ last' = Call("ADBHandler", <<NoSerial>>, <<o>>, c.call)
            /\ pc' = IF c.call.raised # "none" THEN "crashed" ELSE "setup_ui"
    /\ UNCHANGED <<all_files, status, connection_label, title>>
    /\ UNCHANGED <<stack, inflight>>
    /\ UNCHANGED browse

\* ADBFileExplorer.setup_ui: the clipboard, the connection label, the path
\* and its history with the back button, then refresh_files when connected
\* and the status text with the warning box otherwise
SetupUi ==
    /\ pc = "setup_ui"
    /\ connection_label' = ConnectionLabel(session)
    /\ clipboard' = EmptyClipboard
    /\ current_path' = RStripSlash(DefaultRoot)
    /\ path_history' = <<RStripSlash(DefaultRoot)>>
    /\ back_btn' = FALSE
    /\ \/ /\ session.device_connected
          /\ \E o \in FewListingOutcomes :
              \E r \in {refresh_files(session, <<>>, <<>>, RStripSlash(DefaultRoot), o)} :
                  /\ Refreshed(r)
                  /\ last' = Call("setup_ui", <<>>, r.out, r.call)
                  /\ pc' = IF r.call.raised # "none" THEN "crashed" ELSE "select_device"
       \/ /\ ~session.device_connected
          /\ all_files' = <<>>
          /\ status' = "No ADB device connected"
          /\ UNCHANGED <<tree_model, selection>>
          /\ last' = Call("setup_ui", <<>>, <<>>,
                          Returned(FALSE, <<>>, <<Dialog("ADB Connection Error")>>))
          /\ pc' = "select_device"
    /\ UNCHANGED <<session, nsessions, title>>
    /\ UNCHANGED <<stack, inflight>>

\* ADBFileExplorer.select_device with no device: the error box
SelectDeviceNone ==
    /\ pc = "select_device"
    /\ ~session.device_connected
    /\ last' = Call("select_device", <<>>, <<>>,
                    Returned(FALSE, <<>>, <<Dialog("No Devices")>>))
    /\ pc' = "init_refresh"
    /\ UNCHANGED <<session, nsessions, all_files, status, connection_label, title>>
    /\ UNCHANGED <<stack, inflight>>
    /\ UNCHANGED browse

\* ADBFileExplorer.select_device with one device: the title only
SelectDeviceOnly ==
    /\ pc = "select_device"
    /\ session.device_connected
    /\ Cardinality(DOMAIN session.devices) = 1
    /\ title' = TitleFor(session, OnlyKey(session.devices))
    /\ last' = Call("select_device", <<>>, <<>>, Returned(TRUE, <<>>, <<>>))
    /\ pc' = "init_refresh"
    /\ UNCHANGED <<session, nsessions, all_files, status, connection_label>>
    /\ UNCHANGED <<stack, inflight>>
    /\ UNCHANGED browse

\* ADBFileExplorer.select_device with several devices, the chooser rejected
SelectDeviceCancel ==
    /\ pc = "select_device"
    /\ session.device_connected
    /\ Cardinality(DOMAIN session.devices) > 1
    /\ last' = Call("select_device", <<>>, <<>>, Returned(FALSE, <<>>, <<>>))
    /\ pc' = "init_refresh"
    /\ UNCHANGED <<session, nsessions, all_files, status, connection_label, title>>
    /\ UNCHANGED <<stack, inflight>>
    /\ UNCHANGED browse

\* Replace keeping the old object and rebinding its serial
SwitchInPlace(old, new) == [old EXCEPT !.device_serial = new.device_serial]

\* self.adb_handler = ADBHandler(device_serial=selected_serial): the object
\* the window holds after the assignment
Replace(old, new) == new

\* ADBFileExplorer.select_device with several devices, the chooser accepted
\* with selected_serial: a new ADBHandler, then the title from its devices
\* (a KeyError leaves __init__ when the serial is no key of them)
SelectDeviceAccept ==
    /\ pc = "select_device"
    /\ session.device_connected
    /\ Cardinality(DOMAIN session.devices) > 1
    /\ \E selected_serial \in DOMAIN session.devices, o \in LongDevOutcomes :
        \E c \in {ADBHandlerInit(nsessions + 1, selected_serial, o)} :
        \E new \in {Replace(session, c.self)} :
        LET found == selected_serial \in DOMAIN new.devices
        IN  /\ session' = new
            /\ nsessions' = nsessions + 1
            /\ title' = IF found THEN TitleFor(new, selected_serial) ELSE title
            /\ last' = Call("select_device", <<selected_serial>>, <<o>>,
                            IF c.call.raised = "none" /\ ~found
                            THEN Raised("KeyError", c.call.spawned, c.call.logs)
                            ELSE c.call)
            /\ pc' = IF c.call.raised = "none" /\ found
                     THEN "init_refresh" ELSE "crashed"
    /\ UNCHANGED <<all_files, status, connection_label>>
    /\ UNCHANGED <<stack, inflight>>
    /\ UNCHANGED browse

\* ADBFileExplorer.__init__ after select_device:
\* if self.adb_handler.device_connected: self.refresh_files()
InitRefresh ==
    /\ pc = "init_refresh"
    /\ \/ /\ session.device_connected
          /\ \E o \in FewListingOutcomes :
              \E r \in {refresh_files(session, all_files, tree_model, current_path, o)} :
                  /\ Refreshed(r)
                  /\ last' = Call("refresh_files", <<>>, r.out, r.call)
                  /\ pc' = IF r.call.raised # "none" THEN "crashed" ELSE "running"
       \/ /\ ~session.device_connected
          /\ pc' = "running"
          /\ last' = Call("none", <<>>, <<>>, NoCall)
          /\ UNCHANGED <<all_files, status, tree_model, selection>>
    /\ UNCHANGED <<session, nsessions, connection_label, title>>
    /\ UNCHANGED <<stack, inflight>>
    /\ UNCHANGED <<current_path, path_history, back_btn, clipboard>>

\* ADBFileExplorer.refresh_files as a handler of its own, the listing
\* answering from Listings
RefreshFiles(Listings) ==
    /\ pc = "running"
    /\ \E o \in Listings :
        \E r \in {refresh_files(session, all_files, tree_model, current_path, o)} :
            /\ Refreshed(r)
            /\ last' = Call("refresh_files", <<>>, r.out, r.call)
            /\ pc' = IF r.call.raised # "none" THEN "crashed" ELSE "running"
    /\ UNCHANGED <<session, nsessions, connection_label, title>>
    /\ UNCHANGED <<stack, inflight>>
    /\ UNCHANGED <<current_path, path_history, back_btn, clipboard>>

\* the Refresh button
RefreshClicked == RefreshFiles(FewListingOutcomes)

\* the lambda of show_status_message fired by QTimer.singleShot
StatusTimeout ==
    /\ pc = "running"
    /\ status \in {"Refreshing", "Found items"}
    /\ status' = "Ready"
    /\ last' = Call("none", <<>>, <<>>, NoCall)
    /\ UNCHANGED <<pc, session, nsessions, all_files, connection_label, title>>
    /\ UNCHANGED <<stack, inflight>>
    /\ UNCHANGED browse

\* ADBFileExplorer.check_connection_periodically, on the 10 s timer: the
\* flag is overwritten with check_adb_connection(); when it changed, the
\* label is updated and either the warning box is shown or the listing is
\* refreshed; 'adb devices' answers from Enumerations, the listing from
\* Listings
check_connection_periodically(Enumerations, Listings) ==
    /\ pc = "running"
    /\ \E o1 \in Enumerations :
       \E c \in {check_adb_connection(session, o1)} :
       \E now \in {[session EXCEPT !.device_connected = c.ret, !.enum = Enum(o1, "check_adb_connection")]} :
        /\ session' = now
        /\ \/ /\ session.device_connected = c.ret
              /\ last' = Call("check_connection_periodically", <<>>, <<o1>>, c)
              /\ UNCHANGED <<all_files, status, connection_label, pc>>
              /\ UNCHANGED <<tree_model, selection>>
           \/ /\ session.device_connected /\ ~c.ret
              /\ connection_label' = ConnectionLabel(now)
              /\ last' = Call("check_connection_periodically", <<>>, <<o1>>,
                              Returned(FALSE, c.spawned,
                                       c.logs \o <<Dialog("ADB Connection Error")>>))
              /\ UNCHANGED <<all_files, status, pc>>
              /\ UNCHANGED <<tree_model, selection>>
           \/ /\ ~session.device_connected /\ c.ret
              /\ connection_label' = ConnectionLabel(now)
              /\ \E o2 \in Listings :
                 \E r \in {refresh_files(now, all_files, tree_model, current_path, o2)} :
                  /\ Refreshed(r)
                  /\ last' = Call("check_connection_periodically", <<>>,
                                  <<o1>> \o r.out,
                                  IF r.call.raised # "none"
                                  THEN Raised(r.call.raised,
                                              c.spawned \o r.call.spawned,
                                              c.logs \o r.call.logs)
                                  ELSE Returned(TRUE,
                                              c.spawned \o r.call.spawned,
                                              c.logs \o r.call.logs))
                  /\ pc' = IF r.call.raised # "none" THEN "crashed" ELSE "running"
    /\ UNCHANGED <<nsessions, title>>
    /\ UNCHANGED <<stack, inflight>>
    /\ UNCHANGED <<current_path, path_history, back_btn, clipboard>>

\* the 10 s timer of the window
CheckConnectionPeriodically ==
    check_connection_periodically(ShortDevOutcomes, FewListingOutcomes)

Next ==
    \/ AppStart
    \/ SetupUi
    \/ SelectDeviceNone
    \/ SelectDeviceOnly
    \/ SelectDeviceCancel
    \/ SelectDeviceAccept
    \/ InitRefresh
    \/ RefreshClicked
    \/ StatusTimeout
    \/ CheckConnectionPeriodically

Spec == Init /\ [][Next]_vars

(***************************************************************************)
(* The Facade called once: a caller holding a constructed session calls    *)
(* one method with arguments and process answers drawn in the initial      *)
(* state, and the method returns.                                          *)
(***************************************************************************)
\* the sessions ADBHandler() can construct
FacadeSessions == {ADBHandlerInit(1, NoSerial, o).self : o \in LongDevOutcomes}

\* the calls a caller can make: the method, its arguments and the answers
\* the process boundary will give
Called(c0) ==
    \/ c0 \in {Call("list_directory", <<p>>, <<o>>, NoCall) :
                   p \in ListPathsIn, o \in ListingOutcomes}
    \/ c0 \in {Call("get_connected_devices", <<>>, <<o>>, NoCall) :
                   o \in LongDevOutcomes}
    \/ c0 \in {Call("pull_file", <<p, l>>, <<o>>, NoCall) :
                   p \in PathsIn, l \in LocalPathsIn, o \in PlainOutcomes}
    \/ c0 \in {Call("push_file", <<l, p>>, <<o>>, NoCall) :
                   p \in PathsIn, l \in LocalPathsIn, o \in PlainOutcomes}
    \/ c0 \in {Call("rename_item", <<p, q>>, <<o>>, NoCall) :
                   p \in PathsIn, q \in {<<"/", "a", "/", "c">>}, o \in PlainOutcomes}
    \/ c0 \in {Call("delete_item", <<p, d>>, <<o>>, NoCall) :
                   p \in PathsIn, d \in BOOLEAN, o \in PlainOutcomes}
    \/ c0 \in {Call("create_file", <<p>>, <<o>>, NoCall) :
                   p \in PathsIn, o \in PlainOutcomes}
    \/ c0 \in {Call("create_folder", <<p>>, <<o>>, NoCall) :
                   p \in PathsIn, o \in PlainOutcomes}
    \/ c0 \in {Call(op, <<p, q>>, <<o1, o2>>, NoCall) :
                   op \in {"copy_on_device", "move_on_device"},
                   p \in {<<"/", "a", "/", "b">>, <<"/", "q", "\"">>}, q \in DestPathsIn,
                   o1 \in PlainOutcomes, o2 \in PlainOutcomes}
    \/ c0 \in {Call("copy_items_to_path", <<c.items, TargetPath>>, c.outs, NoCall) :
                   c \in CopyCalls}

InitFacade ==
    /\ pc = "call"
    /\ stack = <<>>
    /\ inflight = {}
    /\ session \in FacadeSessions
    /\ nsessions = 1
    /\ all_files = <<>>
    /\ status = "Ready"
    /\ connection_label = ""
    /\ title = PlainTitle
    /\ Called(last)
    /\ AfterSetup

\* the method returns res to the caller (or the exception leaves it)
Return(res) ==
    /\ last' = [last EXCEPT !.res = res]
    /\ pc' = "returned"
    /\ UNCHANGED <<session, nsessions, all_files, status, connection_label, title>>
    /\ UNCHANGED <<stack, inflight>>
    /\ UNCHANGED browse

GetConnectedDevices ==
    /\ pc = "call" /\ last.op = "get_connected_devices"
    /\ Return(get_connected_devices(session, last.out[1]))

ListDirectory ==
    /\ pc = "call" /\ last.op = "list_directory"
    /\ Return(list_directory(session, last.args[1], last.out[1]))

PullFile ==
    /\ pc = "call" /\ last.op = "pull_file"
    /\ Return(pull_file(session, last.args[1], last.args[2], last.out[1]))

PushFile ==
    /\ pc = "call" /\ last.op = "push_file"
    /\ Return(push_file(session, last.args[1], last.args[2], last.out[1]))

RenameItem ==
    /\ pc = "call" /\ last.op = "rename_item"
    /\ Return(rename_item(session, last.args[1], last.args[2], last.out[1]))

DeleteItem ==
    /\ pc = "call" /\ last.op = "delete_item"
    /\ Return(delete_item(session, last.args[1], last.args[2], last.out[1]))

CreateFile ==
    /\ pc = "call" /\ last.op = "create_file"
    /\ Return(create_file(session, last.args[1], last.out[1]))

CreateFolder ==
    /\ pc = "call" /\ last.op = "create_folder"
    /\ Return(create_folder(session, last.args[1], last.out[1]))

CopyOnDevice ==
    /\ pc = "call" /\ last.op = "copy_on_device"
    /\ Return(copy_on_device(session, last.args[1], last.args[2],
                             last.out[1], last.out[2]))

MoveOnDevice ==
    /\ pc = "call" /\ last.op = "move_on_device"
    /\ Return(move_on_device(session, last.args[1], last.args[2],
                             last.out[1], last.out[2]))

\* the window's 'Copy to' on the rows of last.args[1], the target chosen
CopyItemsToPath ==
    /\ pc = "call" /\ last.op = "copy_items_to_path"
    /\ \E r \in {copy_items_to_path(session, all_files, tree_model, last.args[1],
                                     current_path, last.args[2], last.out)} :
        /\ Refreshed(r)
        /\ last' = [last EXCEPT !.res = r.call]
        /\ pc' = "returned"
    /\ UNCHANGED <<session, nsessions, connection_label, title>>
    /\ UNCHANGED <<stack, inflight>>
    /\ UNCHANGED <<current_path, path_history, back_btn, clipboard>>

NextFacade ==
    \/ GetConnectedDevices
    \/ ListDirectory
    \/ PullFile
    \/ PushFile
    \/ RenameItem
    \/ DeleteItem
    \/ CreateFile
    \/ CreateFolder
    \/ CopyOnDevice
    \/ MoveOnDevice
    \/ CopyItemsToPath

SpecFacade == InitFacade /\ [][NextFacade]_vars

(***************************************************************************)
(* main.py on the GUI thread, command by command: a handler starts an adb  *)
(* subprocess and blocks in subprocess.run until it is reaped; the event   *)
(* loop dispatches the 10 s timer when the thread is idle, inside          *)
(* QApplication.processEvents() and inside the exec() of a message box;    *)
(* the user's actions when the thread is idle.                             *)
(***************************************************************************)
\* a handler on the stack: where it stands, whether it is blocked in
\* subprocess.run, the rel_dir flags of the files still to upload, total
\* and success_count, progress.wasCanceled(), and was_connected
Frame(op, pos, todo, total, success_count, was_connected) ==
    [op |-> op, pos |-> pos, waiting |-> FALSE, todo |-> todo, total |-> total,
     success_count |-> success_count, canceled |-> FALSE,
     was_connected |-> was_connected]

Top == stack[Len(stack)]

SetTop(f) == [stack EXCEPT ![Len(stack)] = f]

Pop == SubSeq(stack, 1, Len(stack) - 1)

\* Pumping if subprocess.run let the event loop run while it waits
PumpingAlsoWaiting(f) ==
    f.waiting \/ f.pos \in {"pump", "error_box", "summary_box", "conn_box", "warn_box"}

\* the handler is inside QApplication.processEvents() (main.py:778, and the
\* setValue of the modal progress dialog before it) or the exec() of a
\* QMessageBox (main.py:206, 222)
Pumping(f) == f.pos \in {"pump", "error_box", "summary_box", "conn_box", "warn_box"}

\* the event loop can dispatch an event
Dispatching == IF stack = <<>> THEN TRUE ELSE Pumping(Top)

\* upload_files_and_folders_with_progress at the head of its loop: the
\* position for the files todo
LoopHead(todo, total, success_count) ==
    IF todo = <<>>
    THEN (IF success_count = total THEN "refresh" ELSE "summary_box")
    ELSE (IF Head(todo) THEN "mkdir" ELSE "pump")

\* after the loop (also after break): the success message, or the warning box
AfterLoop(total, success_count) ==
    IF success_count = total THEN "refresh" ELSE "summary_box"

InitEvents ==
    /\ pc = "running"
    /\ session \in FacadeSessions
    /\ nsessions = 1
    /\ all_files = <<>>
    /\ status = "Ready"
    /\ connection_label = ConnectionLabel(session)
    /\ title = PlainTitle
    /\ last = Call("none", <<>>, <<>>, NoCall)
    /\ stack = <<>>
    /\ inflight = {}
    /\ AfterSetup

\* connection_timer.timeout: check_connection_periodically is entered
TimerFires ==
    /\ Dispatching
    /\ Len(stack) < MaxDepth
    /\ stack' = Append(stack, Frame("timer", "check", <<>>, 0, 0, session.device_connected))
    /\ UNCHANGED <<pc, session, nsessions, all_files, status, connection_label, title,
                   last, inflight>>
    /\ UNCHANGED browse

\* files dropped on the window: handle_drop_event, then
\* upload_files_and_folders_with_progress up to the head of its loop (the
\* error box when not connected); the window takes no input while a handler
\* runs, its progress dialog and message boxes being application-modal
DropFiles ==
    /\ stack = <<>>
    /\ \E todo \in SeqsUpTo(BOOLEAN, MaxItems) :
        stack' = <<Frame("upload",
                         IF session.device_connected
                         THEN LoopHead(todo, Len(todo), 0) ELSE "conn_box",
                         todo, Len(todo), 0, FALSE)>>
    /\ UNCHANGED <<pc, session, nsessions, all_files, status, connection_label, title,
                   last, inflight>>
    /\ UNCHANGED browse

\* the Refresh button: refresh_files is entered
RefreshButton ==
    /\ stack = <<>>
    /\ stack' = <<Frame("refresh", "refresh", <<>>, 0, 0, FALSE)>>
    /\ UNCHANGED <<pc, session, nsessions, all_files, status, connection_label, title,
                   last, inflight>>
    /\ UNCHANGED browse

\* the innermost handler goes on with the result ok of the command at its
\* position (False when the Facade method returned without running it)
Continue(ok) ==
    CASE Top.op = "upload" /\ Top.pos = "mkdir" ->
            /\ stack' = SetTop([Top EXCEPT !.pos = "pump", !.waiting = FALSE])
            /\ UNCHANGED <<session, connection_label>>
      [] Top.op = "upload" /\ Top.pos = "push" ->
            /\ stack' = SetTop(
                  IF ok
                  THEN [Top EXCEPT !.waiting = FALSE,
                                   !.todo = Tail(Top.todo),
                                   !.success_count = Top.success_count + 1,
                                   !.pos = IF Top.canceled
                                           THEN AfterLoop(Top.total,
                                                          Top.success_count + 1)
                                           ELSE LoopHead(Tail(Top.todo), Top.total,
                                                         Top.success_count + 1)]
                  ELSE [Top EXCEPT !.waiting = FALSE, !.pos = "error_box"])
            /\ UNCHANGED <<session, connection_label>>
      [] Top.op = "timer" /\ Top.pos = "check" ->
            /\ session' = [session EXCEPT !.device_connected = ok]
            /\ connection_label' = IF Top.was_connected # ok
                                   THEN ConnectionLabel([device_connected |-> ok])
                                   ELSE connection_label
            /\ stack' = IF Top.was_connected = ok THEN Pop
                        ELSE SetTop([Top EXCEPT !.waiting = FALSE,
                                                !.pos = IF ok THEN "refresh" ELSE "warn_box"])
      [] OTHER ->
            /\ stack' = Pop
            /\ UNCHANGED <<session, connection_label>>

\* subprocess.run starts the adb command of the innermost handler, which
\* blocks in it; check_adb_connection runs its command whether connected
\* or not, the Facade methods only when connected
StartCommand ==
    /\ stack # <<>>
    /\ Top.pos \in {"mkdir", "push", "refresh", "check"} /\ ~Top.waiting
    /\ IF Top.pos = "check" THEN TRUE ELSE session.device_connected
    /\ inflight' = inflight \cup {[frame |-> Len(stack), command |-> Top.pos]}
    /\ stack' = SetTop([Top EXCEPT !.waiting = TRUE])
    /\ UNCHANGED <<pc, session, nsessions, all_files, status, connection_label, title,
                   last>>
    /\ UNCHANGED browse

\* the subprocess exits, or is killed at the timeout, and subprocess.run
\* returns or raises into the Facade method, whose result is ok
FinishCommand ==
    /\ stack # <<>>
    /\ Top.waiting
    /\ inflight' = inflight \ {[frame |-> Len(stack), command |-> Top.pos]}
    /\ \E ok \in BOOLEAN : Continue(ok)
    /\ UNCHANGED <<pc, nsessions, all_files, status, title, last>>
    /\ UNCHANGED browse

\* create_folder, push_file and refresh_files on a session that is not
\* connected return without a command
SkipCommand ==
    /\ stack # <<>>
    /\ Top.pos \in {"mkdir", "push", "refresh"} /\ ~Top.waiting
    /\ ~session.device_connected
    /\ Continue(FALSE)
    /\ UNCHANGED <<pc, nsessions, all_files, status, title, last, inflight>>
    /\ UNCHANGED browse

\* QApplication.processEvents() returns to the upload loop; the user may
\* have pressed Cancel on the progress dialog meanwhile
PumpReturns ==
    /\ stack # <<>>
    /\ Top.pos = "pump"
    /\ \E c \in BOOLEAN :
        stack' = SetTop([Top EXCEPT !.pos = "push", !.canceled = Top.canceled \/ c])
    /\ UNCHANGED <<pc, session, nsessions, all_files, status, connection_label, title,
                   last, inflight>>
    /\ UNCHANGED browse

\* the user closes the message box of the innermost handler: after 'Upload
\* Error' the loop is left, after 'Upload Warning' refresh_files follows,
\* after the connection boxes the handler returns
BoxClosed ==
    /\ stack # <<>>
    /\ Top.pos \in {"error_box", "summary_box", "conn_box", "warn_box"}
    /\ stack' = CASE Top.pos = "error_box" ->
                       SetTop([Top EXCEPT !.pos = AfterLoop(Top.total, Top.success_count)])
                  [] Top.pos = "summary_box" -> SetTop([Top EXCEPT !.pos = "refresh"])
                  [] OTHER -> Pop
    /\ UNCHANGED <<pc, session, nsessions, all_files, status, connection_label, title,
                   last, inflight>>
    /\ UNCHANGED browse

NextEvents ==
    \/ TimerFires
    \/ DropFiles
    \/ RefreshButton
    \/ StartCommand
    \/ FinishCommand
    \/ SkipCommand
    \/ PumpReturns
    \/ BoxClosed

SpecEvents == InitEvents /\ [][NextEvents]_vars

(***************************************************************************)
(* main.py: browsing.  The window after construction, each handler of the  *)
(* user's actions as one step: navigation, selection, the clipboard and    *)
(* the batch operations on the selected rows.                              *)
(***************************************************************************)
\* the entries path_history may hold in the model
MaxHistory == 2

\* the rows the user selects at once
MaxSelected == 2

\* the files of one drop on the window
MaxDrop == 2

\* the lines of the listings the browsing model draws from: the directory
\* 'a' and the file 'a b'
DirLine ==
    EntryLine(<<"d", "r", "w", "x", "r", "-", "x", "r", "-", "x">>, <<<<"4", "0", "9", "6">>, 4096>>, <<<<"a">>, TRUE>>, <<" ">>, <<>>)

FileLine ==
    EntryLine(<<"-", "r", "w", "-", "r", "-", "-", "r", "-", "-">>, <<<<"0">>, 0>>, <<<<"a", " ", "b">>, TRUE>>, <<" ", " ">>, <<>>)

BrowseListings ==
    {Completed(0, TextOf(src), src) : src \in {<<>>, <<DirLine>>, <<FileLine, DirLine>>}}
    \cup {Completed(1, <<>>, <<>>)}

\* 'adb devices' naming the device, and failing
BrowseEnumerations ==
    { Completed(0, DevText(<<DevLine(<<"A", "\t", "d", "e", "v", "i", "c", "e">>, <<"A">>, <<>>, "device")>>),
                <<DevLine(<<"A", "\t", "d", "e", "v", "i", "c", "e">>, <<"A">>, <<>>, "device")>>),
      Failed("fault") }

\* what a command of a batch answers
BrowseOutcomes == {Completed(0, <<>>, <<>>), Completed(1, <<>>, <<>>)}

\* the session of the window: ADBHandler() with the device A attached
BrowseSession ==
    ADBHandlerInit(1, NoSerial,
        Completed(0, DevText(<<DevLine(<<"A", " ", "d", "e", "v", "i", "c", "e", " ", "p", "r", "o", "d", "u", "c", "t", ":", "x", " ", "m", "o", "d", "e", "l", ":", "P", " ", "d", "e", "v", "i", "c", "e", ":", "x">>, <<"A">>, <<"P">>, "device")>>),
                  <<DevLine(<<"A", " ", "d", "e", "v", "i", "c", "e", " ", "p", "r", "o", "d", "u", "c", "t", ":", "x", " ", "m", "o", "d", "e", "l", ":", "P", " ", "d", "e", "v", "i", "c", "e", ":", "x">>, <<"A">>, <<"P">>, "device")>>)).self

\* the window constructed on that session, the default root listed empty
InitBrowse ==
    /\ pc = "running"
    /\ session = BrowseSession
    /\ nsessions = 1
    /\ all_files = <<>>
    /\ status = "Ready"
    /\ connection_label = ConnectionLabel(session)
    /\ title = TitleFor(session, OnlyKey(session.devices))
    /\ last = Call("none", <<>>, <<>>, NoCall)
    /\ stack = <<>>
    /\ inflight = {}
    /\ AfterSetup

\* what a handler of the window hands back to the event loop: the Facade
\* calls it made with their results, the commands spawned, its records and
\* its counts
Handled(calls, spawned, logs, success_count, total) ==
    [ret |-> FALSE, raised |-> "none", spawned |-> spawned, logs |-> logs,
     calls |-> calls, success_count |-> success_count, total |-> total]

NothingHandled == Handled(<<>>, <<>>, <<>>, 0, 0)

\* a Facade call of a handler and what it returned
FacadeCall(op, args, r) == [op |-> op, args |-> args, ret |-> r.ret]

\* what leaves the other fields of the window alone
OnlyBrowsing ==
    UNCHANGED <<pc, session, nsessions, connection_label, title, stack, inflight>>

\* the rows of the tree view are clicked: the selection changes
Select ==
    /\ \E sel \in SUBSET (1..Len(tree_model)) :
        /\ Cardinality(sel) <= MaxSelected
        /\ sel # selection
        /\ selection' = sel
    /\ last' = Call("none", <<>>, <<>>, NoCall)
    /\ OnlyBrowsing
    /\ UNCHANGED <<all_files, status, current_path, path_history, back_btn,
                   tree_model, clipboard>>

\* "/".join(self.current_path.rstrip("/").split("/")[:-1]), and the default
\* root when that is empty
UpFrom(path) ==
    IF ParentDir(RStripSlash(path)) # <<>>
    THEN ParentDir(RStripSlash(path)) ELSE DefaultRoot

\* new_path of handle_double_click for a row of type Directory
NewPath(path, item_name) ==
    IF item_name = <<".", ".">> THEN UpFrom(path)
    ELSE RStripSlash(path) \o <<"/">> \o item_name

\* os.path.join(tempfile.gettempdir() or a chosen folder, name)
LocalJoin(dir, name) == dir \o <<"/">> \o name

\* update_path_display keeping the back button enabled
BackAlwaysEnabled(history) == TRUE

\* ADBFileExplorer.update_path_display: whether the back button is enabled,
\* self.back_btn.setEnabled(len(self.path_history) > 1)
update_path_display(history) == Len(history) > 1

\* ADBFileExplorer.open_file_on_host(filename) with the answer o
open_file_on_host(self, path, filename, o) ==
    IF ~self.device_connected
    THEN [status |-> "Error: Connection Error",
          call |-> Handled(<<>>, <<>>, <<Dialog("Connection Error")>>, 0, 0), out |-> <<>>]
    ELSE With(pull_file(self, RStripSlash(path) \o <<"/">> \o filename,
                        LocalJoin(<<"T">>, filename), o),
              LAMBDA r :
                 [status |-> IF r.ret THEN "Opened" ELSE "Error: Open Error",
                  call |-> Handled(<<FacadeCall("pull_file",
                                       <<RStripSlash(path) \o <<"/">> \o filename,
                                         LocalJoin(<<"T">>, filename)>>, r)>>,
                                   r.spawned,
                                   r.logs \o (IF r.ret THEN <<>> ELSE <<Dialog("Open Error")>>),
                                   0, 0),
                  out |-> <<o>>])

\* ADBFileExplorer.handle_double_click on a row: a directory is entered (the
\* '..' row leads up), the path appended to the history, the back button
\* updated and the listing refreshed; a file is opened on the host
HandleDoubleClick ==
    /\ pc = "running"
    /\ \E row \in 1..Len(tree_model) :
        LET item_name == tree_model[row].name
            item_type == tree_model[row].type
            new_path  == NewPath(current_path, item_name)
        IN  \/ /\ item_type = "Directory"
               /\ new_path # current_path
               /\ Len(path_history) < MaxHistory
               /\ current_path' = new_path
               /\ path_history' = Append(path_history, new_path)
               /\ back_btn' = update_path_display(Append(path_history, new_path))
               /\ \E o \in BrowseListings :
                   \E r \in {refresh_files(session, all_files, tree_model, new_path, o)} :
                       /\ all_files' = r.all_files
                       /\ status' = r.status
                       /\ tree_model' = r.tree_model
                       /\ selection' = IF r.shown THEN {} ELSE {row}
                       /\ last' = Call("handle_double_click", <<item_name>>, r.out,
                                       Handled(<<>>, r.call.spawned, r.call.logs, 0, 0))
            \/ /\ item_type = "Directory"
               /\ new_path = current_path
               /\ selection' = {row}
               /\ last' = Call("handle_double_click", <<item_name>>, <<>>, NothingHandled)
               /\ UNCHANGED <<all_files, status, current_path, path_history, back_btn,
                              tree_model>>
            \/ /\ item_type = "File"
               /\ \E o \in BrowseOutcomes :
                   \E r \in {open_file_on_host(session, current_path, item_name, o)} :
                       /\ status' = r.status
                       /\ last' = Call("open_file_on_host", <<item_name>>, r.out, r.call)
               /\ selection' = {row}
               /\ UNCHANGED <<all_files, current_path, path_history, back_btn, tree_model>>
    /\ OnlyBrowsing
    /\ UNCHANGED clipboard

\* ADBFileExplorer.go_back, the slot of the back button
GoBack ==
    /\ pc = "running"
    /\ \/ /\ Len(path_history) > 1
          /\ path_history' = SubSeq(path_history, 1, Len(path_history) - 1)
          /\ current_path' = path_history[Len(path_history) - 1]
          /\ back_btn' = update_path_display(SubSeq(path_history, 1, Len(path_history) - 1))
          /\ \E o \in BrowseListings :
              \E r \in {refresh_files(session, all_files, tree_model,
                                      path_history[Len(path_history) - 1], o)} :
                  /\ Refreshed(r)
                  /\ last' = Call("go_back", <<>>, r.out,
                                  Handled(<<>>, r.call.spawned, r.call.logs, 0, 0))
       \/ /\ Len(path_history) <= 1
          /\ last' = Call("go_back", <<>>, <<>>, NothingHandled)
          /\ UNCHANGED <<all_files, status, current_path, path_history, back_btn,
                         tree_model, selection>>
    /\ OnlyBrowsing
    /\ UNCHANGED clipboard

\* the listings a handler's closing refresh_files draws from
AfterListings == {Completed(0, TextOf(<<DirLine>>), <<DirLine>>), Completed(1, <<>>, <<>>)}

\* the answers to the two commands of copy_on_device / move_on_device for one
\* item: 'mkdir -p' of the parent succeeds, the command itself may fail
BrowsePairs == {<<Completed(0, <<>>, <<>>), o>> : o \in BrowseOutcomes}

\* the items of a loop of n before which its progress dialog can be
\* canceled (n + 1: it is not): the events of the dialog are processed from
\* the end of the first iteration on
CancelPoints(n) == IF n = 0 THEN {1} ELSE 2..(n + 1)

\* selectionModel().selectedRows(): the selected rows from the top
RECURSIVE RowsOf(_)
RowsOf(sel) ==
    IF sel = {} THEN <<>>
    ELSE With(CHOOSE x \in sel : \A y \in sel : x <= y,
              LAMBDA m : <<m>> \o RowsOf(sel \ {m}))

\* ADBFileExplorer.get_selected_items: name, path and is_dir of every
\* selected row, whatever the row is
get_selected_items(rows, sel, path) ==
    With(RowsOf(sel),
         LAMBDA idx :
            [i \in 1..Len(idx) |->
                [name |-> rows[idx[i]].name,
                 path |-> RStripSlash(path) \o <<"/">> \o rows[idx[i]].name,
                 is_dir |-> rows[idx[i]].type = "Directory"]])

\* os.path.basename(path)
BaseName(path) ==
    With(SplitChar(path, "/"), LAMBDA pieces : pieces[Len(pieces)])

\* copy_selected replacing the clipboard whatever is selected
CopyEvenNothing(clip, selected_items) ==
    [items |-> selected_items, operation |-> "copy"]

\* ADBFileExplorer.copy_selected: the clipboard it leaves
copy_selected(clip, selected_items) ==
    IF selected_items = <<>> THEN clip
    ELSE [items |-> selected_items, operation |-> "copy"]

\* ADBFileExplorer.cut_selected: the clipboard it leaves
cut_selected(clip, selected_items) ==
    IF selected_items = <<>> THEN clip
    ELSE [items |-> selected_items, operation |-> "cut"]

\* the Copy entry of the toolbar and of the context menu
CopySelected ==
    /\ pc = "running"
    /\ clipboard' = copy_selected(clipboard,
                                  get_selected_items(tree_model, selection, current_path))
    /\ status' = IF selection = {} THEN status ELSE "Copied to clipboard"
    /\ last' = Call("copy_selected", <<RowsOf(selection)>>, <<>>, NothingHandled)
    /\ OnlyBrowsing
    /\ UNCHANGED <<all_files, current_path, path_history, back_btn, tree_model, selection>>

\* the Cut entry of the toolbar and of the context menu
CutSelected ==
    /\ pc = "running"
    /\ clipboard' = cut_selected(clipboard,
                                 get_selected_items(tree_model, selection, current_path))
    /\ status' = IF selection = {} THEN status ELSE "Cut"
    /\ last' = Call("cut_selected", <<RowsOf(selection)>>, <<>>, NothingHandled)
    /\ OnlyBrowsing
    /\ UNCHANGED <<all_files, current_path, path_history, back_btn, tree_model, selection>>

\* a call of the window's own refresh_files by a handler, among its calls
OwnRefresh(path, r) == [op |-> "refresh_files", args |-> <<path>>, ret |-> r.shown]

\* the loop of paste_items from the i-th item of the clipboard on, the
\* progress dialog canceled before item cancel_at: copy_on_device or
\* move_on_device to f"{dest_dir}/{os.path.basename(src_path)}" inside
\* try/except Exception
RECURSIVE PasteLoop(_, _, _, _, _, _)
PasteLoop(self, clip, dest_dir, outs, cancel_at, i) ==
    IF i > Len(clip.items) \/ i = cancel_at
    THEN [calls |-> <<>>, spawned |-> <<>>, logs |-> <<>>, success_count |-> 0, out |-> <<>>]
    ELSE With(clip.items[i].path,
          LAMBDA src_path :
            With(IF clip.operation = "copy"
                 THEN copy_on_device(self, src_path,
                                     dest_dir \o <<"/">> \o BaseName(src_path),
                                     outs[i][1], outs[i][2])
                 ELSE move_on_device(self, src_path,
                                     dest_dir \o <<"/">> \o BaseName(src_path),
                                     outs[i][1], outs[i][2]),
              LAMBDA c :
                With(PasteLoop(self, clip, dest_dir, outs, cancel_at, i + 1),
                  LAMBDA rest :
                    [calls |-> <<FacadeCall(IF clip.operation = "copy"
                                            THEN "copy_on_device" ELSE "move_on_device",
                                            <<src_path,
                                              dest_dir \o <<"/">> \o BaseName(src_path)>>,
                                            c)>> \o rest.calls,
                     spawned |-> c.spawned \o rest.spawned,
                     logs |-> c.logs
                              \o (IF c.raised # "none"
                                  THEN <<LogRec("print", "Error during paste operation", <<>>)>>
                                  ELSE <<>>)
                              \o rest.logs,
                     success_count |-> (IF c.raised = "none" /\ c.ret THEN 1 ELSE 0)
                                       + rest.success_count,
                     out |-> outs[i] \o rest.out])))

\* the clipboard after a paste that is emptied whenever an item succeeded
ClearedAfterAnyPaste(clip, success_count) ==
    IF success_count > 0 THEN EmptyClipboard ELSE clip

\* the clipboard paste_items leaves: emptied after a cut of which an item
\* succeeded
ClipboardAfterPaste(clip, success_count) ==
    IF success_count > 0 /\ clip.operation = "cut" THEN EmptyClipboard ELSE clip

\* ADBFileExplorer.paste_items with the answers outs of the commands (a pair
\* per item) and o of the listing
paste_items(self, files, rows, clip, path, outs, cancel_at, o) ==
    IF clip.items = <<>>
    THEN [all_files |-> files, status |-> "Clipboard is empty", tree_model |-> rows,
          shown |-> FALSE, clipboard |-> clip, call |-> NothingHandled, out |-> <<>>]
    ELSE With(PasteLoop(self, clip, path, outs, cancel_at, 1),
          LAMBDA l :
            IF l.success_count > 0
            THEN With(refresh_files(self, files, rows, path, o),
                  LAMBDA r :
                    [all_files |-> r.all_files,
                     status |-> IF clip.operation = "copy"
                                THEN "Successfully pasted" ELSE "Successfully moved",
                     tree_model |-> r.tree_model,
                     shown |-> r.shown,
                     clipboard |-> ClipboardAfterPaste(clip, l.success_count),
                     call |-> Handled(l.calls \o <<OwnRefresh(path, r)>>,
                                      l.spawned \o r.call.spawned,
                                      l.logs \o r.call.logs,
                                      l.success_count, Len(clip.items)),
                     out |-> l.out \o r.out])
            ELSE [all_files |-> files,
                  status |-> "Paste operation failed or was canceled",
                  tree_model |-> rows, shown |-> FALSE,
                  clipboard |-> ClipboardAfterPaste(clip, l.success_count),
                  call |-> Handled(l.calls, l.spawned, l.logs, 0, Len(clip.items)),
                  out |-> l.out])

\* the Paste entry of the toolbar and of the context menu
PasteItems ==
    /\ pc = "running"
    /\ \E outs \in [1..Len(clipboard.items) -> BrowsePairs],
          cancel_at \in CancelPoints(Len(clipboard.items)),
          o \in AfterListings :
        \E r \in {paste_items(session, all_files, tree_model, clipboard, current_path,
                              outs, cancel_at, o)} :
            /\ Refreshed(r)
            /\ clipboard' = r.clipboard
            /\ last' = Call("paste_items", <<clipboard>>, r.out, r.call)
    /\ OnlyBrowsing
    /\ UNCHANGED <<current_path, path_history, back_btn>>

\* the Refresh button of the browsing window
BrowseRefresh == RefreshFiles(BrowseListings)

\* the 10 s timer of the browsing window
BrowseTimer == check_connection_periodically(BrowseEnumerations, BrowseListings)

NextBrowse ==
    \/ Select
    \/ HandleDoubleClick
    \/ GoBack
    \/ BrowseRefresh
    \/ BrowseTimer

SpecBrowse == InitBrowse /\ [][NextBrowse]_vars

(***************************************************************************)
(* main.py: the clipboard.  The window inside the directory 'a' of the     *)
(* default root (a state of the browsing above: 'a' entered by a double    *)
(* click), the rows '..', 'a' and 'a b' shown.                             *)
(***************************************************************************)
\* f"{self.current_path.rstrip('/')}/a"
InsidePath == DefaultRoot \o <<"/", "a">>

InitInside ==
    /\ pc = "running"
    /\ session = BrowseSession
    /\ nsessions = 1
    /\ connection_label = ConnectionLabel(session)
    /\ title = TitleFor(session, OnlyKey(session.devices))
    /\ last = Call("none", <<>>, <<>>, NoCall)
    /\ stack = <<>>
    /\ inflight = {}
    /\ current_path = InsidePath
    /\ path_history = <<DefaultRoot, InsidePath>>
    /\ back_btn = update_path_display(path_history)
    /\ \E r \in {refresh_files(BrowseSession, <<>>, <<>>, InsidePath,
                               Completed(0, TextOf(<<FileLine, DirLine>>),
                                         <<FileLine, DirLine>>))} :
        /\ all_files = r.all_files
        /\ status = r.status
        /\ tree_model = r.tree_model
    /\ selection = {}
    /\ clipboard = EmptyClipboard

\* the 10 s timer while the clipboard is used
ClipTimer == check_connection_periodically(BrowseEnumerations, AfterListings)

NextClipboard ==
    \/ Select
    \/ CopySelected
    \/ CutSelected
    \/ PasteItems
    \/ ClipTimer

SpecClipboard == InitInside /\ [][NextClipboard]_vars

(***************************************************************************)
(* main.py: the entries of the context menu on the selected rows, dropped  *)
(* files, and their loops.                                                 *)
(***************************************************************************)
\* what a handler that did not reach refresh_files leaves in the window
Done(files, rows, st, call, out) ==
    [all_files |-> files, status |-> st, tree_model |-> rows, shown |-> FALSE,
     call |-> call, out |-> out]

\* what a handler that ended with refresh_files (result r) leaves
ThenRefresh(r, path, calls, spawned, logs, success_count, total, out) ==
    [all_files |-> r.all_files, status |-> r.status, tree_model |-> r.tree_model,
     shown |-> r.shown,
     call |-> Handled(calls \o <<OwnRefresh(path, r)>>, spawned \o r.call.spawned,
                      logs \o r.call.logs, success_count, total),
     out |-> out \o r.out]

\* the guard the handlers of the menu start with
ConnectionError(files, rows) ==
    Done(files, rows, "Error: Connection Error",
         Handled(<<>>, <<>>, <<Dialog("Connection Error")>>, 0, 0), <<>>)

\* f"{self.current_path.rstrip('/')}/{name}"
InCurrent(path, name) == RStripSlash(path) \o <<"/">> \o name

\* the rows of the selection, from the top
SelectedRows(rows, sel) ==
    With(RowsOf(sel), LAMBDA idx : [i \in 1..Len(idx) |-> rows[idx[i]]])

\* the selected rows with a name other than '..'
ValidRows(rows, sel) ==
    SelectSeq(SelectedRows(rows, sel),
              LAMBDA row : row.name # <<>> /\ row.name # <<".", ".">>)

\* ADBFileExplorer.delete_item(name, is_dir), the Delete entry of the menu on
\* one row: yes is the answer to the question, o the answer of the process
\* boundary and ol the one of the listing
ui_delete_item(self, files, rows, st, path, name, is_dir, yes, o, ol) ==
    IF ~self.device_connected THEN ConnectionError(files, rows)
    ELSE IF ~yes THEN Done(files, rows, st, NothingHandled, <<>>)
    ELSE With(delete_item(self, InCurrent(path, name), is_dir, o),
          LAMBDA d :
            IF ~d.ret
            THEN Done(files, rows, "Error: Delete Error",
                      Handled(<<FacadeCall("delete_item",
                                           <<InCurrent(path, name), is_dir>>, d)>>,
                              d.spawned, d.logs \o <<Dialog("Delete Error")>>, 0, 1),
                      <<o>>)
            ELSE ThenRefresh(refresh_files(self, files, rows, path, ol), path,
                             <<FacadeCall("delete_item",
                                          <<InCurrent(path, name), is_dir>>, d)>>,
                             d.spawned, d.logs, 1, 1, <<o>>))

\* ADBFileExplorer.rename_item(old_name), the Rename entry of the menu on one
\* row: new_name is the text of the input dialog, empty when it was canceled
ui_rename_item(self, files, rows, st, path, old_name, new_name, o, ol) ==
    IF ~self.device_connected THEN ConnectionError(files, rows)
    ELSE IF new_name = <<>> \/ new_name = old_name
    THEN Done(files, rows, st, NothingHandled, <<>>)
    ELSE With(rename_item(self, InCurrent(path, old_name), InCurrent(path, new_name), o),
          LAMBDA d :
            IF ~d.ret
            THEN Done(files, rows, "Error: Rename Error",
                      Handled(<<FacadeCall("rename_item",
                                           <<InCurrent(path, old_name),
                                             InCurrent(path, new_name)>>, d)>>,
                              d.spawned, d.logs \o <<Dialog("Rename Error")>>, 0, 1),
                      <<o>>)
            ELSE ThenRefresh(refresh_files(self, files, rows, path, ol), path,
                             <<FacadeCall("rename_item",
                                          <<InCurrent(path, old_name),
                                            InCurrent(path, new_name)>>, d)>>,
                             d.spawned, d.logs, 1, 1, <<o>>))

\* the loop of delete_selected_items stopping at the first failure
RECURSIVE DeleteUntilFailure(_, _, _, _)
DeleteUntilFailure(self, names_types, path, outs) ==
    IF names_types = <<>>
    THEN [calls |-> <<>>, spawned |-> <<>>, logs |-> <<>>, success_count |-> 0, out |-> <<>>]
    ELSE With(delete_item(self, InCurrent(path, Head(names_types).name),
                          Head(names_types).type = "Directory", Head(outs)),
          LAMBDA d :
            With(IF d.ret
                 THEN DeleteUntilFailure(self, Tail(names_types), path, Tail(outs))
                 ELSE [calls |-> <<>>, spawned |-> <<>>, logs |-> <<>>,
                       success_count |-> 0, out |-> <<>>],
              LAMBDA rest :
                [calls |-> <<FacadeCall("delete_item",
                                        <<InCurrent(path, Head(names_types).name),
                                          Head(names_types).type = "Directory">>, d)>>
                           \o rest.calls,
                 spawned |-> d.spawned \o rest.spawned,
                 logs |-> d.logs \o rest.logs,
                 success_count |-> (IF d.ret THEN 1 ELSE 0) + rest.success_count,
                 out |-> <<Head(outs)>> \o rest.out]))

\* the loop of delete_selected_items: delete_item on every name, the
\* successes counted
RECURSIVE DeleteLoop(_, _, _, _)
DeleteLoop(self, names_types, path, outs) ==
    IF names_types = <<>>
    THEN [calls |-> <<>>, spawned |-> <<>>, logs |-> <<>>, success_count |-> 0, out |-> <<>>]
    ELSE With(delete_item(self, InCurrent(path, Head(names_types).name),
                          Head(names_types).type = "Directory", Head(outs)),
          LAMBDA d :
            With(DeleteLoop(self, Tail(names_types), path, Tail(outs)),
              LAMBDA rest :
                [calls |-> <<FacadeCall("delete_item",
                                        <<InCurrent(path, Head(names_types).name),
                                          Head(names_types).type = "Directory">>, d)>>
                           \o rest.calls,
                 spawned |-> d.spawned \o rest.spawned,
                 logs |-> d.logs \o rest.logs,
                 success_count |-> (IF d.ret THEN 1 ELSE 0) + rest.success_count,
                 out |-> <<Head(outs)>> \o rest.out]))

\* ADBFileExplorer.delete_selected_items, the Delete Selected entry of the
\* menu on several rows
delete_selected_items(self, files, rows, st, path, sel, yes, outs, ol) ==
    IF ~self.device_connected THEN ConnectionError(files, rows)
    ELSE IF sel = {} \/ ValidRows(rows, sel) = <<>> \/ ~yes
    THEN Done(files, rows, st, NothingHandled, <<>>)
    ELSE With(DeleteLoop(self, ValidRows(rows, sel), path, outs),
          LAMBDA l :
            ThenRefresh(refresh_files(self, files, rows, path, ol), path,
                        l.calls, l.spawned,
                        l.logs \o (IF l.success_count = Len(ValidRows(rows, sel))
                                   THEN <<>> ELSE <<Dialog("Delete Warning")>>),
                        l.success_count, Len(ValidRows(rows, sel)), l.out))

\* the inputs a handler of the menu can come to use: one of them stands for
\* all when the session is not connected, since each handler returns at its
\* device_connected guard
Asked(inputs) ==
    IF session.device_connected THEN inputs ELSE {CHOOSE x \in inputs : TRUE}

\* the window takes what a handler of the menu leaves
Leaves(r) ==
    /\ Refreshed(r)
    /\ OnlyBrowsing
    /\ UNCHANGED <<current_path, path_history, back_btn, clipboard>>

\* Delete on the one selected row
DeleteMenu ==
    /\ pc = "running"
    /\ Cardinality(selection) = 1
    /\ \E row \in selection, yes \in Asked(BOOLEAN), o \in Asked(BrowseOutcomes),
          ol \in Asked(AfterListings) :
        \E r \in {ui_delete_item(session, all_files, tree_model, status, current_path,
                                 tree_model[row].name, tree_model[row].type = "Directory",
                                 yes, o, ol)} :
            /\ Leaves(r)
            /\ last' = Call("ui_delete_item", <<tree_model[row].name>>, r.out, r.call)

\* Rename on the one selected row
RenameMenu ==
    /\ pc = "running"
    /\ Cardinality(selection) = 1
    /\ \E row \in selection, new_name \in Asked({<<>>, <<"c">>}),
          o \in Asked(BrowseOutcomes), ol \in Asked(AfterListings) :
        \E r \in {ui_rename_item(session, all_files, tree_model, status, current_path,
                                 tree_model[row].name, new_name, o, ol)} :
            /\ Leaves(r)
            /\ last' = Call("ui_rename_item", <<tree_model[row].name, new_name>>, r.out, r.call)

\* Delete Selected on several selected rows
DeleteSelected ==
    /\ pc = "running"
    /\ Cardinality(selection) > 1
    /\ \E yes \in Asked(BOOLEAN),
          outs \in Asked([1..Len(ValidRows(tree_model, selection)) -> BrowseOutcomes]),
          ol \in Asked(AfterListings) :
        \E r \in {delete_selected_items(session, all_files, tree_model, status,
                                        current_path, selection, yes, outs, ol)} :
            /\ Leaves(r)
            /\ last' = Call("delete_selected_items", <<RowsOf(selection)>>, r.out, r.call)

\* str(d) for a digit d
DigitChar(d) == Ascii[17 + d]

\* str(n) for n >= 0
RECURSIVE Str(_)
Str(n) == IF n < 10 THEN <<DigitChar(n)>> ELSE Str(n \div 10) \o <<DigitChar(n % 10)>>

\* s.zfill(width) for a string of digits
RECURSIVE ZFill(_, _)
ZFill(s, width) == IF Len(s) >= width THEN s ELSE ZFill(<<"0">> \o s, width)

\* the loop of batch_rename_selected from the i-th selected row on, the
\* progress dialog canceled before row cancel_at: rename_item is given
\* old_path and new_name (new_path is computed and not used)
RECURSIVE RenameLoop(_, _, _, _, _, _, _)
RenameLoop(self, selected, path, base_name, outs, cancel_at, i) ==
    IF i > Len(selected) \/ i = cancel_at
    THEN [calls |-> <<>>, spawned |-> <<>>, logs |-> <<>>, success_count |-> 0, out |-> <<>>]
    ELSE With(base_name \o ZFill(Str(i), Len(Str(Len(selected)))),
          LAMBDA new_name :
            With(rename_item(self, InCurrent(path, selected[i].name), new_name, outs[i]),
              LAMBDA d :
                With(RenameLoop(self, selected, path, base_name, outs, cancel_at, i + 1),
                  LAMBDA rest :
                    [calls |-> <<FacadeCall("rename_item",
                                            <<InCurrent(path, selected[i].name), new_name>>,
                                            d)>> \o rest.calls,
                     spawned |-> d.spawned \o rest.spawned,
                     logs |-> d.logs \o rest.logs,
                     success_count |-> (IF d.ret THEN 1 ELSE 0) + rest.success_count,
                     out |-> <<outs[i]>> \o rest.out])))

\* ADBFileExplorer.batch_rename_selected, the Batch Rename entry of the menu
\* on several rows: base_name is the text of the input dialog, empty when it
\* was canceled
batch_rename_selected(self, files, rows, st, path, sel, base_name, outs, cancel_at, ol) ==
    IF ~self.device_connected THEN ConnectionError(files, rows)
    ELSE IF Cardinality(sel) < 2
    THEN Done(files, rows, st, Handled(<<>>, <<>>, <<Dialog("Info")>>, 0, 0), <<>>)
    ELSE IF base_name = <<>> THEN Done(files, rows, st, NothingHandled, <<>>)
    ELSE With(RenameLoop(self, SelectedRows(rows, sel), path, base_name, outs,
                         cancel_at, 1),
          LAMBDA l :
            ThenRefresh(refresh_files(self, files, rows, path, ol), path,
                        l.calls, l.spawned,
                        l.logs \o (IF l.success_count = Cardinality(sel)
                                   THEN <<>> ELSE <<Dialog("Rename Warning")>>),
                        l.success_count, Cardinality(sel), l.out))

\* the names of rows
Names(rows) == [i \in 1..Len(rows) |-> rows[i].name]

\* Batch Rename on several selected rows
BatchRename ==
    /\ pc = "running"
    /\ Cardinality(selection) > 1
    /\ \E base_name \in Asked({<<>>, <<"n">>}),
          cancel_at \in Asked(CancelPoints(Cardinality(selection))),
          ol \in Asked(AfterListings) :
        \E outs \in Asked([1..(cancel_at - 1) -> BrowseOutcomes]) :
         \E r \in {batch_rename_selected(session, all_files, tree_model, status,
                                        current_path, selection, base_name, outs,
                                        cancel_at, ol)} :
            /\ Leaves(r)
            /\ last' = Call("batch_rename_selected",
                            <<Names(SelectedRows(tree_model, selection)), base_name>>,
                            r.out, r.call)

\* the folder chosen in the file dialog of the host
SaveDir == <<"/", "h", "/", "S">>

\* the loop of download_files_with_progress from the i-th pair of todo on,
\* the progress dialog canceled before pair cancel_at: pull_file, and the
\* first failure shows the error and ends the loop
RECURSIVE DownloadLoop(_, _, _, _, _)
DownloadLoop(self, todo, outs, cancel_at, i) ==
    IF i > Len(todo) \/ i = cancel_at
    THEN [calls |-> <<>>, spawned |-> <<>>, logs |-> <<>>, success_count |-> 0, out |-> <<>>]
    ELSE With(pull_file(self, todo[i][1], todo[i][2], outs[i]),
          LAMBDA d :
            With(IF d.ret THEN DownloadLoop(self, todo, outs, cancel_at, i + 1)
                 ELSE [calls |-> <<>>, spawned |-> <<>>,
                       logs |-> <<Dialog("Download Error")>>,
                       success_count |-> 0, out |-> <<>>],
              LAMBDA rest :
                [calls |-> <<FacadeCall("pull_file", todo[i], d)>> \o rest.calls,
                 spawned |-> d.spawned \o rest.spawned,
                 logs |-> d.logs \o rest.logs,
                 success_count |-> (IF d.ret THEN 1 ELSE 0) + rest.success_count,
                 out |-> <<outs[i]>> \o rest.out]))

\* ADBFileExplorer.download_files_with_progress(files)
download_files_with_progress(self, files, rows, todo, outs, cancel_at) ==
    IF ~self.device_connected THEN ConnectionError(files, rows)
    ELSE With(DownloadLoop(self, todo, outs, cancel_at, 1),
          LAMBDA l :
            Done(files, rows,
                 IF l.success_count = Len(todo)
                 THEN "Successfully downloaded" ELSE "Error: Download Warning",
                 Handled(l.calls, l.spawned,
                         l.logs \o (IF l.success_count = Len(todo)
                                    THEN <<>> ELSE <<Dialog("Download Warning")>>),
                         l.success_count, Len(todo)),
                 l.out))

\* ADBFileExplorer.download_selected_items, the Download Selected entry of
\* the menu on several rows: save_dir is the folder chosen, empty when the
\* file dialog was canceled
download_selected_items(self, files, rows, st, path, sel, save_dir, outs, cancel_at) ==
    IF ~self.device_connected THEN ConnectionError(files, rows)
    ELSE IF sel = {} \/ save_dir = <<>> THEN Done(files, rows, st, NothingHandled, <<>>)
    ELSE With([i \in 1..Len(ValidRows(rows, sel)) |->
                  <<InCurrent(path, ValidRows(rows, sel)[i].name),
                    LocalJoin(save_dir, ValidRows(rows, sel)[i].name)>>],
          LAMBDA files_to_download :
            IF files_to_download = <<>>
            THEN Done(files, rows, "Error: Download Error",
                      Handled(<<>>, <<>>, <<Dialog("Download Error")>>, 0, 0), <<>>)
            ELSE download_files_with_progress(self, files, rows, files_to_download,
                                              outs, cancel_at))

\* Download Selected on several selected rows
DownloadSelected ==
    /\ pc = "running"
    /\ Cardinality(selection) > 1
    /\ \E save_dir \in Asked({<<>>, SaveDir}),
          cancel_at \in Asked(CancelPoints(Len(ValidRows(tree_model, selection)))) :
        \E outs \in Asked([1..(cancel_at - 1) -> BrowseOutcomes]) :
         \E r \in {download_selected_items(session, all_files, tree_model, status,
                                          current_path, selection, save_dir, outs,
                                          cancel_at)} :
            /\ Leaves(r)
            /\ last' = Call("download_selected_items", <<RowsOf(selection)>>, r.out, r.call)

\* s.replace("\\", "/")
SlashesOnly(s) == [i \in 1..Len(s) |-> IF s[i] = "\\" THEN "/" ELSE s[i]]

\* what handle_drop_event collects from n dropped files: (path, "")
PlainDrop(n) ==
    [files |-> [i \in 1..n |->
                   [file_path |-> <<"/", "h", "/", "f">> \o Str(i), rel_dir |-> <<>>]],
     base_folder |-> <<>>]

\* and from a dropped folder D with n files, the first in D itself
\* (os.path.relpath gives '.'), the others in its subfolder s
FolderDrop(n) ==
    [files |-> [i \in 1..n |->
                   IF i = 1
                   THEN [file_path |-> <<"/", "h", "/", "D", "/", "f">> \o Str(i),
                         rel_dir |-> <<".">>]
                   ELSE [file_path |-> <<"/", "h", "/", "D", "/", "s", "/", "f">> \o Str(i),
                         rel_dir |-> <<"s">>]],
     base_folder |-> <<"/", "h", "/", "D">>]

Drops == {PlainDrop(n) : n \in 0..MaxDrop} \cup {FolderDrop(n) : n \in 1..MaxDrop}

\* remote_dir of upload_files_and_folders_with_progress
RemoteDir(path, base_folder, rel_dir) ==
    IF base_folder # <<>> /\ rel_dir # <<".">>
    THEN SlashesOnly(RStripSlash(path) \o <<"/">> \o BaseName(base_folder)
                     \o <<"/">> \o rel_dir)
    ELSE IF base_folder # <<>>
    THEN SlashesOnly(RStripSlash(path) \o <<"/">> \o BaseName(base_folder))
    ELSE RStripSlash(path)

\* the loop of upload_files_and_folders_with_progress from the i-th file on,
\* the progress dialog canceled before file cancel_at: create_folder when
\* rel_dir is not empty (its result is not looked at), push_file, and the
\* first failure shows the error and ends the loop
RECURSIVE UploadLoop(_, _, _, _, _, _, _)
UploadLoop(self, todo, base_folder, path, outs, cancel_at, i) ==
    IF i > Len(todo) \/ i = cancel_at
    THEN [calls |-> <<>>, spawned |-> <<>>, logs |-> <<>>, success_count |-> 0, out |-> <<>>]
    ELSE With(RemoteDir(path, base_folder, todo[i].rel_dir),
          LAMBDA remote_dir :
            With(IF todo[i].rel_dir # <<>>
                 THEN With(create_folder(self, remote_dir, outs[i][1]),
                           LAMBDA mk :
                              [calls |-> <<FacadeCall("create_folder", <<remote_dir>>, mk)>>,
                               spawned |-> mk.spawned, logs |-> mk.logs,
                               out |-> <<outs[i][1]>>])
                 ELSE [calls |-> <<>>, spawned |-> <<>>, logs |-> <<>>, out |-> <<>>],
              LAMBDA made :
                With(push_file(self, todo[i].file_path,
                               SlashesOnly(remote_dir \o <<"/">>
                                           \o BaseName(todo[i].file_path)),
                               outs[i][2]),
                  LAMBDA d :
                    With(IF d.ret
                         THEN UploadLoop(self, todo, base_folder, path, outs,
                                         cancel_at, i + 1)
                         ELSE [calls |-> <<>>, spawned |-> <<>>,
                               logs |-> <<Dialog("Upload Error")>>,
                               success_count |-> 0, out |-> <<>>],
                      LAMBDA rest :
                        [calls |-> made.calls
                                   \o <<FacadeCall("push_file",
                                          <<todo[i].file_path,
                                            SlashesOnly(remote_dir \o <<"/">>
                                                \o BaseName(todo[i].file_path))>>, d)>>
                                   \o rest.calls,
                         spawned |-> made.spawned \o d.spawned \o rest.spawned,
                         logs |-> made.logs \o d.logs \o rest.logs,
                         success_count |-> (IF d.ret THEN 1 ELSE 0) + rest.success_count,
                         out |-> made.out \o <<outs[i][2]>> \o rest.out]))))

\* ADBFileExplorer.upload_files_and_folders_with_progress(files, base_folder)
upload_files_and_folders_with_progress(self, files, rows, todo, base_folder, path, outs, cancel_at, ol) ==
    IF ~self.device_connected THEN ConnectionError(files, rows)
    ELSE With(UploadLoop(self, todo, base_folder, path, outs, cancel_at, 1),
          LAMBDA l :
            ThenRefresh(refresh_files(self, files, rows, path, ol), path,
                        l.calls, l.spawned,
                        l.logs \o (IF l.success_count = Len(todo)
                                   THEN <<>> ELSE <<Dialog("Upload Warning")>>),
                        l.success_count, Len(todo), l.out))

\* ADBFileExplorer.handle_drop_event with what it collected from the urls
handle_drop_event(self, files, rows, st, path, drop, outs, cancel_at, ol) ==
    IF ~self.device_connected THEN ConnectionError(files, rows)
    ELSE IF drop.files = <<>> THEN Done(files, rows, st, NothingHandled, <<>>)
    ELSE upload_files_and_folders_with_progress(self, files, rows, drop.files,
                                                drop.base_folder, path, outs,
                                                cancel_at, ol)

\* files or a folder are dropped on the window
DropUpload ==
    /\ pc = "running"
    /\ \E drop \in Asked(Drops) :
        \E cancel_at \in Asked(CancelPoints(Len(drop.files))), ol \in Asked(AfterListings) :
          \E outs \in Asked([1..(cancel_at - 1) -> BrowsePairs]) :
            \E r \in {handle_drop_event(session, all_files, tree_model, status,
                                        current_path, drop, outs, cancel_at, ol)} :
                /\ Leaves(r)
                /\ last' = Call("handle_drop_event", <<drop>>, r.out, r.call)

(***************************************************************************)
(* select_directory_dialog.py: the chooser of the destination directory.   *)
(***************************************************************************)
\* a call self.adb_handler.list_directory(path, **kwargs): Python binds the
\* keyword arguments to the parameters of list_directory(self, path) and
\* raises TypeError for a keyword that names none of them
list_directory_kw(self, path, kwargs, o) ==
    IF kwargs \subseteq {"path"} THEN list_directory(self, path, o)
    ELSE Raised("TypeError", <<>>, <<>>)

\* root_path of the dialog main.py constructs
DialogRoot == <<"/">>

\* "/".join(self.current_path.split("/")[:-1]), root_path when that is empty
DialogParent(path, root_path) ==
    IF ParentDir(path) = <<>> THEN root_path ELSE ParentDir(path)

\* a row of the dialog: its Name and Path columns
DialogRow(name, path) == [name |-> name, path |-> path]

\* SelectDirectoryDialog.refresh on path with the answer o of the process
\* boundary: the '..' row outside root_path, then list_directory with
\* use_root=self.use_root inside try/except Exception and a row for every
\* directory of its result
dialog_refresh(self, path, root_path, rows, use_root, o) ==
    IF ~self.device_connected
    THEN [rows |-> rows, status |-> "No ADB device connected"]
    ELSE With(IF path # root_path
              THEN <<DialogRow(<<".", ".">>, DialogParent(path, root_path))>>
              ELSE <<>>,
          LAMBDA up :
            With(list_directory_kw(self, path, use_root, o),
              LAMBDA l :
                IF l.raised # "none"
                THEN [rows |-> up, status |-> "Error loading directories"]
                ELSE With(Sorted(SelectSeq(l.ret, LAMBDA f : f.is_dir)),
                      LAMBDA dirs :
                        [rows |-> up \o [i \in 1..Len(dirs) |->
                                            DialogRow(dirs[i].name, dirs[i].path)],
                         status |-> "Found directories"])))

\* SelectDirectoryDialog.go_up: the path it leaves
go_up(path, root_path) ==
    IF path = root_path THEN path ELSE DialogParent(path, root_path)

\* the path of the dialog after ups clicks on Up
RECURSIVE DialogPath(_, _, _)
DialogPath(path, root_path, ups) ==
    IF ups = 0 THEN path ELSE DialogPath(go_up(path, root_path), root_path, ups - 1)

\* no dialog was opened
NoDialog == [opened |-> FALSE, current_path |-> <<>>, rows |-> <<>>, status |-> "Ready"]

\* SelectDirectoryDialog(parent, adb_handler, start_path) as the user sees it
\* after ups clicks on Up: __init__ (root_path '/', use_root False, refresh
\* when connected) and a refresh per click
SelectDirectoryDialog(self, start_path, ups, o) ==
    With(DialogPath(IF start_path = <<"/">> THEN start_path ELSE RStripSlash(start_path),
                    DialogRoot, ups),
      LAMBDA path :
        With(dialog_refresh(self, path, DialogRoot, <<>>, {"use_root"}, o),
          LAMBDA r :
            [opened |-> TRUE, current_path |-> path, rows |-> r.rows,
             status |-> r.status]))

\* SelectDirectoryDialog.accept with the row pick selected (0: none), then
\* get_selected_path: the path of the row, or nothing when the dialog stays
\* open and is canceled
SelectedPath(self, dialog, pick) ==
    IF ~self.device_connected \/ pick = 0 THEN <<>> ELSE dialog.rows[pick].path

\* the (name, is_dir) pairs of copy_selected_to as the items of
\* copy_items_to_path
NamesTypes(rows, sel) ==
    [i \in 1..Len(ValidRows(rows, sel)) |->
        [name |-> ValidRows(rows, sel)[i].name,
         is_dir |-> ValidRows(rows, sel)[i].type = "Directory"]]

\* ADBFileExplorer.copy_selected_to, the Copy Selected To entry of the menu
\* on several rows: the dialog, the question and copy_items_to_path
copy_selected_to(self, files, rows, st, path, sel, ups, o, pick, yes, outs) ==
    IF ~self.device_connected
    THEN [res |-> ConnectionError(files, rows), dialog |-> NoDialog]
    ELSE IF sel = {} \/ NamesTypes(rows, sel) = <<>>
    THEN [res |-> Done(files, rows, st, NothingHandled, <<>>), dialog |-> NoDialog]
    ELSE With(SelectDirectoryDialog(self, path, ups, o),
          LAMBDA dialog :
            IF SelectedPath(self, dialog, pick) = <<>> \/ ~yes
            THEN [res |-> Done(files, rows, st, NothingHandled, <<>>), dialog |-> dialog]
            ELSE With(copy_items_to_path(self, files, rows, NamesTypes(rows, sel), path,
                                         SelectedPath(self, dialog, pick), outs),
                  LAMBDA c :
                    [res |-> [all_files |-> c.all_files, status |-> c.status,
                              tree_model |-> c.tree_model, shown |-> c.shown,
                              call |-> Handled(<<>>, c.call.spawned, c.call.logs, 0,
                                               Len(NamesTypes(rows, sel))),
                              out |-> outs],
                     dialog |-> dialog]))

\* the answers copy_items_to_path consumes for n items: two per item (the
\* first command succeeds) and the listing
CopyAnswers(n) ==
    {Concat(pairs) \o <<ol>> : pairs \in [1..n -> BrowsePairs], ol \in AfterListings}

\* Copy Selected To on several selected rows; o is what the device answers
\* to the listing of the dialog's path
CopySelectedTo ==
    /\ pc = "running"
    /\ Cardinality(selection) > 1
    /\ \E ups \in Asked(0..1), o \in Asked(AfterListings) :
        \E pick \in Asked(0..Len(SelectDirectoryDialog(session, current_path, ups, o).rows)),
           yes \in Asked(BOOLEAN) :
          \E outs \in IF pick # 0 /\ yes
                       THEN Asked(CopyAnswers(Len(NamesTypes(tree_model, selection))))
                       ELSE {<<>>} :
            \E r \in {copy_selected_to(session, all_files, tree_model, status,
                                       current_path, selection, ups, o, pick, yes, outs)} :
                /\ Leaves(r.res)
                /\ last' = Call("copy_selected_to",
                                <<r.dialog, o, SelectedPath(session, r.dialog, pick)>>,
                                r.res.out, r.res.call)

\* the 10 s timer while the menu is used
BatchTimer == check_connection_periodically(BrowseEnumerations, AfterListings)

NextBatch ==
    \/ Select
    \/ DeleteMenu
    \/ RenameMenu
    \/ DeleteSelected
    \/ BatchRename
    \/ DownloadSelected
    \/ CopySelectedTo
    \/ DropUpload
    \/ BatchTimer

SpecBatch == InitInside /\ [][NextBatch]_vars

(***************************************************************************)
(* Properties.                                                             *)
(***************************************************************************)
\* the answer of the process boundary reports success
Succeeded(o) == o.kind = "completed" /\ o.rc = 0

BoolOps ==
    {"pull_file", "push_file", "rename_item", "delete_item", "create_file",
     "create_folder"}

OnDeviceOps == {"copy_on_device", "move_on_device"}

FacadeOps == {"list_directory"} \cup BoolOps \cup OnDeviceOps

\* C1: a Facade operation called on a session whose connected flag is false
\* returns failure (False, the empty list for list_directory) and spawns no
\* process.
C1_NotConnectedNoSpawn ==
    (pc = "returned" /\ last.op \in FacadeOps /\ ~session.device_connected)
        => /\ last.res.raised = "none"
           /\ last.res.spawned = <<>>
           /\ IF last.op = "list_directory"
              THEN last.res.ret = <<>>
              ELSE last.res.ret = FALSE

\* delete_item(path, True) returned on a disconnected session although the
\* process would have succeeded
C1_Witness ==
    /\ pc = "returned" /\ last.op = "delete_item"
    /\ ~session.device_connected
    /\ last.args[2] = TRUE
    /\ Succeeded(last.out[1])

\* C2: no Facade operation and no discovery call lets an exception out:
\* whatever the process boundary answers the method returns, and when the
\* answer to its (last) command is a failure it returns False, the empty
\* list (list_directory) or the empty mapping (get_connected_devices).
C2_NeverRaises ==
    (pc = "returned" /\ last.op \in FacadeOps \cup {"get_connected_devices"})
        => /\ last.res.raised = "none"
           /\ ~Succeeded(last.out[Len(last.out)])
                => CASE last.op = "list_directory" -> last.res.ret = <<>>
                     [] last.op = "get_connected_devices" -> last.res.ret = EmptyDict
                     [] OTHER -> last.res.ret = FALSE

\* a connected session, push_file, and no adb executable to spawn
C2_Witness ==
    /\ pc = "returned" /\ last.op = "push_file"
    /\ session.device_connected
    /\ last.out[1].kind = "notfound"
    /\ last.res.spawned # <<>>

\* C3: pull, push, rename, delete, create_file and create_folder on a
\* connected session whose process completes return True exactly when the
\* exit status is 0, and delete_item issues 'rm -r' for a directory and 'rm'
\* otherwise.
C3_ExitStatusDecides ==
    (pc = "returned" /\ last.op \in BoolOps /\ session.device_connected
     /\ last.out[1].kind = "completed")
        => /\ last.res.ret = (last.out[1].rc = 0)
           /\ Len(last.res.spawned) = 1
           /\ last.op = "delete_item"
                => /\ last.res.spawned[1].command.sub = "shell"
                   /\ last.res.spawned[1].command.verb =
                        (IF last.args[2] THEN "rm -r" ELSE "rm")

\* delete_item of a directory on a connected session, exit status 1
C3_Witness ==
    /\ pc = "returned" /\ last.op = "delete_item"
    /\ session.device_connected
    /\ last.args[2] = TRUE
    /\ last.out[1].kind = "completed" /\ last.out[1].rc = 1
    /\ last.res.spawned[1].command.verb = "rm -r"

\* list_directory returned on a connected session whose ls exited with 0
Listed ==
    /\ pc = "returned" /\ last.op = "list_directory"
    /\ session.device_connected
    /\ Succeeded(last.out[1])

\* the lines of a listing an entry is due for
IsEntry(l) == l.kind = "entry" /\ l.name \notin {<<".">>, <<".", ".">>}

\* the entry list_directory returned is the one line of the listing, field
\* by field
FieldsExact ==
    /\ Len(last.res.ret) = 1
    /\ last.res.ret[1].permissions = last.out[1].src[1].perms
    /\ last.res.ret[1].size = last.out[1].src[1].size
    /\ last.res.ret[1].date_modified =
         last.out[1].src[1].date \o <<" ">> \o last.out[1].src[1].time
    /\ last.res.ret[1].name = last.out[1].src[1].name
    /\ last.res.ret[1].is_dir = (last.out[1].src[1].perms[1] = "d")

\* C4: for a well-formed long-format line the entry has the permissions, the
\* size, the date and time 'YYYY-MM-DD HH:MM' and the name of the line, the
\* name being all that follows the time field, and is_dir is true exactly
\* when the permissions begin with 'd'.
C4_FieldsExact ==
    (Listed /\ Len(last.out[1].src) = 1 /\ IsEntry(last.out[1].src[1]))
        => FieldsExact

\* the same for the lines whose name neither begins nor ends with white space
\* (line.strip() takes nothing off them but the line end)
FieldsExactOfTrimmedNames ==
    (Listed /\ Len(last.out[1].src) = 1 /\ IsEntry(last.out[1].src[1])
     /\ last.out[1].src[1].trimmed)
        => FieldsExact

\* a regular file whose name holds a space, fields two spaces apart, CRLF
ListedNameWithSpace ==
    /\ Listed /\ Len(last.out[1].src) = 1
    /\ last.out[1].src[1].kind = "entry"
    /\ last.out[1].src[1].name = <<"a", " ", "b">>
    /\ last.out[1].src[1].perms[1] = "-"
    /\ last.out[1].src[1].size = 4096
    /\ Contains(last.out[1].out, <<" ", " ">>)
    /\ Contains(last.out[1].out, <<"\r">>)
    /\ Len(last.res.ret) = 1

\* the lines of src an entry is due for, in their order
RECURSIVE Due(_)
Due(src) ==
    IF src = <<>> THEN <<>>
    ELSE (IF IsEntry(Head(src)) THEN <<Head(src)>> ELSE <<>>) \o Due(Tail(src))

\* C5: the entries of a listing are, in the order of the text, one per line
\* that matches the pattern and is not named '.' or '..'; blank lines, the
\* 'total' line and lines that do not match add nothing and change nothing
\* about the entries of the other lines.
C5_OneEntryPerMatchingLine ==
    Listed
        => /\ Len(last.res.ret) = Len(Due(last.out[1].src))
           /\ \A i \in 1..Len(last.res.ret) :
                /\ last.res.ret[i].permissions = Due(last.out[1].src)[i].perms
                /\ last.res.ret[i].size = Due(last.out[1].src)[i].size
                /\ Due(last.out[1].src)[i].trimmed
                     => last.res.ret[i].name = Due(last.out[1].src)[i].name

\* a '..' line and then an entry line: one entry
C5_Witness ==
    /\ Listed /\ Len(last.out[1].src) = 2
    /\ last.out[1].src[1].name = <<".", ".">>
    /\ last.out[1].src[2].kind = "entry"
    /\ last.out[1].src[2].name = <<"a", " ", "b">>
    /\ Len(last.res.ret) = 1

\* C6: a listing text with the sentinel line 'error' gives the empty list
\* and an error record, whatever its other lines are.
C6_SentinelGivesEmptyAndLogs ==
    (Listed /\ \E i \in 1..Len(last.out[1].src) : last.out[1].src[i].kind = "error")
        => /\ last.res.ret = <<>>
           /\ \E k \in 1..Len(last.res.logs) : last.res.logs[k].level = "error"

\* C7: discovery returns the empty mapping and raises nothing when the
\* enumeration exits non-zero, times out, cannot be spawned or its output
\* cannot be read, and the session built on it is not connected.
C7_FailedDiscoveryDisconnects ==
    /\ (last.op = "ADBHandler" /\ ~Succeeded(last.out[1]))
        => /\ last.res.raised = "none"
           /\ last.res.ret = EmptyDict
           /\ session.devices = EmptyDict
           /\ ~session.device_connected
    /\ (last.op = "select_device" /\ last.out # <<>> /\ ~Succeeded(last.out[1]))
        => /\ last.res.raised \in {"none", "KeyError"}
           /\ session.devices = EmptyDict
           /\ ~session.device_connected

\* the first ADBHandler() whose 'adb devices -l' timed out
C7_Witness ==
    /\ last.op = "ADBHandler" /\ last.out[1].kind = "timeout"
    /\ pc = "setup_ui" /\ session.id = 1

\* the mapping serial -> model of the ready devices of an enumeration
ReadyDevices(src) ==
    [ s \in {src[i].serial : i \in {k \in 1..Len(src) : src[k].state = "device"}} |->
        LET l == CHOOSE l \in {src[i] : i \in 1..Len(src)} :
                    l.serial = s /\ l.state = "device"
        IN  IF l.model = <<>> THEN <<"U", "n", "k", "n", "o", "w", "n">> ELSE l.model ]

\* C8: discovery returns the mapping serial -> model of exactly the lines
\* that hold the token 'device', wherever it stands in the line, 'Unknown'
\* standing for a missing model.
C8_DiscoveryFindsEveryReadyDevice ==
    (last.op = "ADBHandler" /\ Succeeded(last.out[1]))
        => last.res.ret = ReadyDevices(last.out[1].src)

\* C9: the connected flag is true exactly when the enumeration it was
\* derived from returned a ready device: the mapping of discovery for a
\* constructed session, the answer of 'adb devices' after a periodic check.
C9_ConnectedIffReadyDevice ==
    session.id >= 1
        => (session.device_connected
              <=> IF session.enum.by = "check_adb_connection"
                  THEN session.enum.ready # {}
                  ELSE DOMAIN session.devices # {})

\* C10: the serial of a constructed session never changes, and accepting
\* the chooser puts a newly constructed session, which ran discovery under
\* the chosen serial, in the place of the old one.
C10_SerialFixedPerSession ==
    [][ /\ (session.id >= 1 /\ session'.id = session.id)
            => session'.device_serial = session.device_serial
        /\ (pc = "select_device" /\ last'.args # <<>>)
            => /\ session'.id = session.id + 1
               /\ session'.id = nsessions'
               /\ session'.device_serial = last'.args[1]
               /\ Len(last'.res.spawned) = 1
               /\ last'.res.spawned[1].command.sub = "devices"
               /\ last'.res.spawned[1].serial = last'.args[1] ]_vars

\* the second session, chosen in the chooser, after a timer tick
C10_Witness ==
    /\ session.id = 2 /\ nsessions = 2
    /\ session.device_serial # NoSerial
    /\ pc = "running"
    /\ last.op = "check_connection_periodically"

\* C11: a session that has a bound serial and is connected has that serial
\* among the keys of the mapping its own discovery returned, and selecting a
\* device ends in no lookup failure.
C11_BoundSerialIsDiscovered ==
    /\ (session.id >= 1 /\ session.device_serial # NoSerial
        /\ session.device_connected /\ session.enum.by = "get_connected_devices")
            => session.device_serial \in DOMAIN session.devices
    /\ last.res.raised # "KeyError"

\* the text of a record holds the path, as given or as the shell command
\* line quotes it
NamesPath(arg, path) == Contains(arg, path) \/ Contains(arg, _escape_path(path))

\* the answer to the operation's own (last) command is a timeout
TimedOut == last.out[Len(last.out)].kind = "timeout"

DoubleQuoted(operand) ==
    /\ Len(operand) >= 2
    /\ operand[1] = "\"" /\ operand[Len(operand)] = "\""
    /\ \A i \in 2..(Len(operand) - 1) :
          operand[i] \in {"\"", "'"} => (i > 2 /\ operand[i - 1] = "\\")

\* C13: every path embedded in a remote shell command, by a Facade
\* operation or by the window's own directory copy, is wrapped in double
\* quotes with its double and single quote characters behind a backslash.
C13_ShellPathsDoubleQuoted ==
    pc = "returned"
        => \A k \in 1..Len(last.res.spawned) :
              last.res.spawned[k].command.sub = "shell"
                => \A j \in 1..Len(last.res.spawned[k].command.operands) :
                      DoubleQuoted(last.res.spawned[k].command.operands[j])

\* the same for the commands of the Facade operations alone
ShellPathsDoubleQuotedByFacade ==
    (pc = "returned" /\ last.op \in FacadeOps)
        => \A k \in 1..Len(last.res.spawned) :
              last.res.spawned[k].command.sub = "shell"
                => \A j \in 1..Len(last.res.spawned[k].command.operands) :
                      DoubleQuoted(last.res.spawned[k].command.operands[j])

\* the destination has a '/' after its first character
HasParent(dest) == \E i \in 2..Len(dest) : dest[i] = "/"

\* what stands before the last '/' of the destination
BeforeLastSlash(dest) ==
    LET k == CHOOSE i \in 1..Len(dest) :
                /\ dest[i] = "/"
                /\ \A j \in (i + 1)..Len(dest) : dest[j] # "/"
    IN  SubSeq(dest, 1, k - 1)

\* C14: copy_on_device and move_on_device on a connected session issue
\* 'mkdir -p' for the parent of the destination and after it 'cp -r' or
\* 'mv', whatever the mkdir answered; the result is True exactly when the
\* cp or mv exits with 0; no mkdir is issued for a destination without a
\* parent component.
C14_MkdirThenCopy ==
    (pc = "returned" /\ last.op \in OnDeviceOps /\ session.device_connected)
        => /\ last.res.raised = "none"
           /\ Len(last.res.spawned) = IF HasParent(last.args[2]) THEN 2 ELSE 1
           /\ HasParent(last.args[2])
                => last.res.spawned[1].command =
                      Command("shell", "mkdir -p",
                              <<_escape_path(BeforeLastSlash(last.args[2]))>>)
           /\ last.res.spawned[Len(last.res.spawned)].command =
                 Command("shell", IF last.op = "copy_on_device" THEN "cp -r" ELSE "mv",
                         <<_escape_path(last.args[1]), _escape_path(last.args[2])>>)
           /\ last.res.ret = Succeeded(last.out[2])

\* copy_on_device to '/a/b' whose mkdir timed out and whose cp succeeded
C14_Witness ==
    /\ pc = "returned" /\ last.op = "copy_on_device"
    /\ session.device_connected
    /\ last.args[2] = <<"/", "a", "/", "b">>
    /\ last.out[1].kind = "timeout" /\ Succeeded(last.out[2])
    /\ Len(last.res.spawned) = 2
    /\ last.res.ret = TRUE

\* what the constructor's caller can read off the new object
Observable(self) ==
    [device_serial |-> self.device_serial, devices |-> self.devices,
     device_connected |-> self.device_connected]

\* adb runs and prints the header alone: no device is attached
NoDeviceAttached == Completed(0, DevText(<<>>), <<>>)

\* C15: a missing adb executable is told apart from 'no device attached':
\* the object ADBHandler() leaves behind, and the answer of the periodic
\* connection check, differ from the ones obtained when adb runs and lists
\* no device.
C15_ToolNotFoundDistinct ==
    /\ (last.op = "ADBHandler" /\ last.out[1].kind = "notfound")
            => Observable(session)
                 # Observable(ADBHandlerInit(1, NoSerial, NoDeviceAttached).self)
    /\ (last.op = "check_connection_periodically" /\ last.out[1].kind = "notfound")
            => session.device_connected
                 # check_adb_connection(session, NoDeviceAttached).ret

\* C16: the entries list_directory returns have pairwise different names
\* (and paths), whatever the text of the listing, repeated lines included.
C16_OneEntryPerName ==
    Listed
        => \A i, j \in 1..Len(last.res.ret) :
              i # j => /\ last.res.ret[i].name # last.res.ret[j].name
                       /\ last.res.ret[i].path # last.res.ret[j].path

\* the same for the listings whose lines name pairwise different files
OneEntryPerNameOfDistinctLines ==
    (Listed /\ \A i, j \in 1..Len(last.out[1].src) :
                  (i # j /\ IsEntry(last.out[1].src[i]) /\ IsEntry(last.out[1].src[j]))
                     => Strip(last.out[1].src[i].name) # Strip(last.out[1].src[j].name))
        => \A i, j \in 1..Len(last.res.ret) :
              i # j => last.res.ret[i].name # last.res.ret[j].name

\* C17: an entry of a listing that is a directory has size 0, whatever
\* size its line reports.
C17_DirectorySizeZero ==
    Listed
        => \A i \in 1..Len(last.res.ret) :
              last.res.ret[i].is_dir => last.res.ret[i].size = 0

\* C17 as amended: the size of every entry, directories included, is the
\* number its line reports.
C17_SizeAsReported ==
    Listed
        => /\ Len(last.res.ret) = Len(Due(last.out[1].src))
           /\ \A i \in 1..Len(last.res.ret) :
                /\ last.res.ret[i].size = Due(last.out[1].src)[i].size
                /\ last.res.ret[i].is_dir
                     = (Due(last.out[1].src)[i].perms[1] = "d")

\* a directory whose line reports 4096
C17_Witness ==
    /\ Listed /\ Len(last.out[1].src) = 1
    /\ last.out[1].src[1].kind = "entry"
    /\ last.out[1].src[1].perms[1] = "d"
    /\ last.out[1].src[1].size = 4096
    /\ Len(last.res.ret) = 1
    /\ last.res.ret[1].is_dir /\ last.res.ret[1].size = 4096

\* the base path without its trailing '/'
Base(path) ==
    IF path # <<>> /\ path[Len(path)] = "/"
    THEN SubSeq(path, 1, Len(path) - 1)
    ELSE path

\* C18: every entry's path is the base without its trailing slash, '/' and
\* the name ('/' and the name for the base '/'), and listing the same text
\* under the base with a trailing slash gives the same entries.
C18_PathJoinedOnce ==
    Listed
        => /\ \A i \in 1..Len(last.res.ret) :
                last.res.ret[i].path
                  = Base(last.args[1]) \o <<"/">> \o last.res.ret[i].name
           /\ list_directory(session, Base(last.args[1]) \o <<"/">>, last.out[1]).ret
                = last.res.ret

\* '/a/' listed with the entry 'a b': its path is '/a/a b'
C18_Witness ==
    /\ Listed
    /\ last.args[1] = <<"/", "a", "/">>
    /\ Len(last.res.ret) = 1
    /\ last.res.ret[1].name = <<"a", " ", "b">>
    /\ last.res.ret[1].path = <<"/", "a", "/", "a", " ", "b">>

\* C19: at most one adb subprocess is in flight at any time, and it is the
\* one the innermost handler is blocked in, whatever the timer and the user
\* do while batch loops and message boxes run the event loop.
C19_OneCommandInFlight ==
    /\ Cardinality(inflight) <= 1
    /\ \A c \in inflight : c.frame = Len(stack) /\ Top.waiting

\* the timer's 'adb devices' in flight, started from inside the
\* processEvents() of an upload that has a file still to push
C19_Witness ==
    /\ Len(stack) = 2
    /\ stack[1].op = "upload" /\ stack[1].pos = "pump" /\ stack[1].todo # <<>>
    /\ stack[2].op = "timer" /\ stack[2].waiting
    /\ inflight = {[frame |-> 2, command |-> "check"]}

\* the longest the commands of the returned call can have blocked its caller
BlockedAtMost == Timeout * Len(last.res.spawned)

\* C20: a Facade operation returns to its caller, having run at most one
\* timeout-bounded command: it blocks for at most one timeout period.
C20_OneInvocationPerCall ==
    (pc = "returned" /\ last.op \in FacadeOps)
        => /\ last.res.raised = "none"
           /\ Len(last.res.spawned) <= 1
           /\ BlockedAtMost <= Timeout

\* C20 as amended: every Facade operation returns to its caller, whether its
\* commands exit or time out, having run at most one timeout-bounded command,
\* except copy_on_device and move_on_device to a destination with a parent
\* component, which run two (mkdir -p, then cp or mv) and block for at most
\* two timeout periods.
C20_ReturnsWithinTwoInvocations ==
    (pc = "returned" /\ last.op \in FacadeOps)
        => /\ last.res.raised = "none"
           /\ Len(last.res.spawned)
                <= (IF last.op \in OnDeviceOps /\ HasParent(last.args[2])
                    THEN 2 ELSE 1)
           /\ BlockedAtMost <= 2 * Timeout

\* move_on_device to '/a/b' returned False after both its commands timed out
C20_Witness ==
    /\ pc = "returned" /\ last.op = "move_on_device"
    /\ session.device_connected
    /\ last.args[2] = <<"/", "a", "/", "b">>
    /\ last.out[1].kind = "timeout" /\ last.out[2].kind = "timeout"
    /\ Len(last.res.spawned) = 2
    /\ BlockedAtMost = 2 * Timeout
    /\ last.res.ret = FALSE

\* the listing answer is a failure: a fault, a non-zero exit status, or the
\* sentinel line of the '|| echo "error"' fallback
ListingFailed(o) ==
    \/ o.kind # "completed"
    \/ o.rc # 0
    \/ \E i \in 1..Len(o.src) : o.src[i].kind = "error"

\* C21: when the directory listing of a refresh fails (non-zero exit,
\* timeout or error sentinel) the window shows an error status, not the
\* status of a successfully listed directory.
C21_FailedListingShowsError ==
    (pc = "running" /\ last.op = "refresh_files" /\ last.out # <<>>
        /\ ListingFailed(last.out[1]))
        => status # "Found items"

\* the commands of the last handler that list a directory or act on a file
FileCommands ==
    {i \in 1..Len(last.res.spawned) :
        last.res.spawned[i].command.sub \in {"shell", "push", "pull"}}

\* C22: a session constructed without a serial is bound to the discovered
\* device when discovery returns one device and unbound when it returns
\* several; a session that holds several devices and no serial issues no
\* listing or file command.
C22_UnboundSessionIssuesNoCommand ==
    /\ (last.op = "ADBHandler" /\ last.args = <<NoSerial>>)
        => /\ Cardinality(DOMAIN session.devices) = 1
                => session.device_serial = OnlyKey(session.devices)
           /\ Cardinality(DOMAIN session.devices) > 1
                => session.device_serial = NoSerial
    /\ (Cardinality(DOMAIN session.devices) > 1 /\ session.device_serial = NoSerial)
        => FileCommands = {}

\* the history is not empty, ends with the current path, holds no path
\* twice in a row, and the back button is enabled exactly when it holds
\* more than one path
HistoryFollows ==
    /\ path_history # <<>>
    /\ path_history[Len(path_history)] = current_path
    /\ \A i \in 1..(Len(path_history) - 1) : path_history[i] # path_history[i + 1]
    /\ back_btn = (Len(path_history) > 1)

\* C23: after any sequence of directory entries, '..' navigations and back
\* actions the history is non-empty, its last element is the current path,
\* no two consecutive elements are equal and the back button is enabled
\* exactly when the history holds more than one element; a back action on a
\* one-element history changes nothing.
C23_HistoryFollowsNavigation ==
    /\ HistoryFollows
    /\ [][ /\ HistoryFollows'
           /\ (last'.op = "go_back" /\ Len(path_history) = 1)
                => UNCHANGED <<browse, all_files, status, session>> ]_vars

\* the back button took the window from the directory 'a' back to the
\* default root, where it is disabled again
C23_Witness ==
    /\ last.op = "go_back" /\ last.out # <<>>
    /\ path_history = <<DefaultRoot>>
    /\ current_path = DefaultRoot
    /\ ~back_btn

\* path is the default root or lies below it
UnderDefaultRoot(path) ==
    \/ path = DefaultRoot
    \/ StartsWith(path, DefaultRoot \o <<"/">>)

\* C24: the current path is the default root or a descendant of it, and the
\* '..' row is offered exactly when the current path is not the default
\* root.
C24_PathUnderDefaultRoot ==
    /\ UnderDefaultRoot(current_path)
    /\ (\E row \in 1..Len(tree_model) : tree_model[row] = ParentRow)
         <=> current_path # DefaultRoot


\* the clipboard holds nothing under None, or items under copy or cut
ClipboardShape ==
    /\ clipboard.operation \in {"None", "copy", "cut"}
    /\ clipboard.operation = "None" <=> clipboard.items = <<>>

\* C25: in every reachable state the clipboard's operation is None exactly
\* when its item list is empty and is otherwise copy or cut, and a copy or
\* cut with nothing selected leaves the clipboard as it was.
C25_ClipboardOperationMatchesItems ==
    /\ ClipboardShape
    /\ [][ /\ ClipboardShape'
           /\ (last'.op \in {"copy_selected", "cut_selected"} /\ selection = {})
                => clipboard' = clipboard ]_vars

\* Cut was chosen with nothing selected while the clipboard held a copy
C25_Witness ==
    /\ last.op = "cut_selected"
    /\ last.args[1] = <<>>
    /\ clipboard.operation = "copy"
    /\ clipboard.items # <<>>

\* the on-device calls of the last handler that returned True
MovedOrCopied ==
    {i \in 1..Len(last.res.calls) :
        last.res.calls[i].op \in OnDeviceOps /\ last.res.calls[i].ret}

\* C26: a paste with an empty clipboard issues no device command; a paste
\* empties the clipboard when it was a cut and at least one item was moved
\* (the items whose move failed go too) and leaves it as it was otherwise;
\* the listing is refreshed only when at least one item succeeded.
C26_PasteClearsOnlyAfterCut ==
    last.op = "paste_items" =>
        LET before == last.args[1]
        IN  /\ before.items = <<>>
                => last.res.spawned = <<>> /\ last.res.calls = <<>>
            /\ IF before.operation = "cut" /\ MovedOrCopied # {}
               THEN clipboard = EmptyClipboard
               ELSE clipboard = before
            /\ (\E i \in 1..Len(last.res.calls) : last.res.calls[i].op = "refresh_files")
                => MovedOrCopied # {}

\* two items were cut and pasted, the move of one failed, and the clipboard
\* is empty
C26_Witness ==
    /\ last.op = "paste_items"
    /\ last.args[1].operation = "cut"
    /\ Len(last.args[1].items) = 2
    /\ Cardinality(MovedOrCopied) = 1
    /\ Len(last.res.calls) = 3
    /\ clipboard = EmptyClipboard


\* the handlers of the window that record their Facade calls
MenuHandlers ==
    {"paste_items", "ui_delete_item", "ui_rename_item", "delete_selected_items",
     "batch_rename_selected", "download_selected_items", "handle_drop_event"}

\* path ends in '/..'
EndsInParent(path) ==
    Len(path) >= 3 /\ SubSeq(path, Len(path) - 2, Len(path)) = <<"/", ".", ".">>

\* the paths a mutating Facade call was given
MutatedPaths(call) ==
    CASE call.op = "delete_item" -> {call.args[1]}
      [] call.op \in {"rename_item", "copy_on_device", "move_on_device"} ->
            {call.args[1], call.args[2]}
      [] OTHER -> {}

\* C27: no handler of the window gives a Facade delete, rename, copy or move
\* a path that ends in '/..': the '..' row of the tree is never the source or
\* the target of such a call.
C27_ParentRowNeverMutated ==
    last.op \in MenuHandlers =>
        \A i \in 1..Len(last.res.calls) :
            \A path \in MutatedPaths(last.res.calls[i]) : ~EndsInParent(path)


\* the rename_item calls of the last handler
Renames == SelectSeq(last.res.calls, LAMBDA c : c.op = "rename_item")

\* C28: batch rename issues, for the i-th selected item, a rename from
\* '<current path>/<old name>' to '<current path>/<base name><i>' with i
\* zero-padded to the digit count of the selection size: the item stays in
\* the current directory and the new names of a batch are pairwise distinct.
C28_BatchRenameStaysInDirectory ==
    last.op = "batch_rename_selected" =>
        /\ \A i \in 1..Len(Renames) :
            /\ Renames[i].args[1] = InCurrent(current_path, last.args[1][i])
            /\ Renames[i].args[2] =
                   InCurrent(current_path,
                             last.args[2] \o ZFill(Str(i), Len(Str(Len(last.args[1])))))
            /\ ParentDir(Renames[i].args[2]) = RStripSlash(current_path)
        /\ \A i, j \in 1..Len(Renames) :
            i # j => Renames[i].args[2] # Renames[j].args[2]


\* the handlers with a batch loop of uploads, downloads or deletions
BatchHandlers == {"handle_drop_event", "download_selected_items", "delete_selected_items"}

\* the Facade calls of the last handler (its own refresh_files left out)
FacadeCalls == SelectSeq(last.res.calls, LAMBDA c : c.op # "refresh_files")

\* the calls that upload, download or delete one item
Transfers ==
    SelectSeq(last.res.calls, LAMBDA c : c.op \in {"push_file", "pull_file", "delete_item"})

\* the number of calls of a sequence that returned True
Trues(calls) == Cardinality({i \in 1..Len(calls) : calls[i].ret})

\* the handler showed its warning in place of the success message
Warned ==
    \E i \in 1..Len(last.res.logs) :
        /\ last.res.logs[i].level = "dialog"
        /\ last.res.logs[i].msg \in {"Upload Warning", "Download Warning", "Delete Warning"}

\* the batch of the last handler ran its loop
BatchRan == last.op \in BatchHandlers /\ last.res.total > 0

\* what holds of the loops whichever calls are counted
BatchShape ==
    /\ ~Warned <=> last.res.success_count = last.res.total
    /\ last.op \in {"handle_drop_event", "download_selected_items"}
         => \A i \in 1..Len(Transfers) : ~Transfers[i].ret => i = Len(Transfers)
    /\ last.op = "delete_selected_items" => Len(Transfers) = last.res.total

\* C30 as stated: in the batch upload, download and delete loops the reported
\* success count equals the number of Facade calls that returned true; full
\* success is reported exactly when the count equals the number of requested
\* items; the first failed upload or download ends the batch; batch delete
\* attempts every item.
C30_CountIsTrueFacadeCalls ==
    BatchRan => /\ last.res.success_count = Trues(FacadeCalls)
                /\ BatchShape

\* C30, amended: the reported success count equals the number of push_file,
\* pull_file and delete_item calls that returned true (the create_folder
\* calls of a folder upload are not counted); full success is reported
\* exactly when the count equals the number of requested items; the first
\* failed upload or download ends the batch; batch delete attempts every
\* item.
C30_CountIsTrueTransfers ==
    BatchRan => /\ last.res.success_count = Trues(Transfers)
                /\ BatchShape

\* a batch delete of two items whose first deletion failed and whose second
\* succeeded
C30_Witness ==
    /\ last.op = "delete_selected_items"
    /\ Len(Transfers) = 2
    /\ ~Transfers[1].ret
    /\ Transfers[2].ret
    /\ last.res.success_count = 1
    /\ Warned


\* the subdirectories list_directory gives for path when the device answers o
Subdirectories(path, o) ==
    SelectSeq(list_directory(session, path, o).ret, LAMBDA f : f.is_dir)

\* the rows of a dialog other than its '..' row
ChoiceRows(dialog) == SelectSeq(dialog.rows, LAMBDA row : row.name # <<".", ".">>)

\* C29: when the session is connected and the listing of the dialog's path
\* succeeds, the chooser shows one row per subdirectory of that path, with
\* its full path, and directories only; the path it returns on accept is
\* that of the parent row or of a subdirectory of the dialog's path.
C29_ChooserShowsSubdirectories ==
    (/\ last.op = "copy_selected_to"
     /\ last.args[1].opened
     /\ session.device_connected
     /\ Succeeded(last.args[2]))
        => LET dialog == last.args[1]
               subdirs == Subdirectories(dialog.current_path, last.args[2])
           IN  /\ Len(ChoiceRows(dialog)) = Len(subdirs)
               /\ {ChoiceRows(dialog)[i] : i \in 1..Len(ChoiceRows(dialog))}
                    = {DialogRow(subdirs[i].name, subdirs[i].path) : i \in 1..Len(subdirs)}
               /\ last.args[3] # <<>>
                    => last.args[3] \in
                         {DialogParent(dialog.current_path, DialogRoot)}
                         \cup {subdirs[i].path : i \in 1..Len(subdirs)}

====
